---- MODULE Spec2Model ----
(***************************************************************************)
(* Model of provider-hostinger:                                            *)
(*   - auth.V2OAuthAuth (token cache, getToken, refreshToken,              *)
(*     RefreshIfNeeded)            src/internal/clients/auth/v2oauthauth.go *)
(*   - clients.HostingerClient (PrepareRequest, Do) src/unnamed/part_009   *)
(*   - clients.ClassifyError, IsNotFound            src/unnamed/part_004   *)
(*   - instance.InstanceClient (GetObservation, LateInitialize, UpToDate)  *)
(*                            src/internal/clients/instance/instance.go    *)
(*   - the external client of the Instance reconciler                      *)
(*                            src/internal/controller/instance/instance.go *)
(* Spec is the HTTP client core: one goroutine issues calls; a call runs   *)
(* as a sequence of steps so that the clock and the cancellation of the    *)
(* context can change between them.  Time is counted in seconds.           *)
(* SpecInstance, SpecObservation, SpecClassify, SpecReconcile, SpecResolver *)
(* and SpecKeyAuth are the other components, each with the rest of the     *)
(* state at rest.  SpecHeaders and SpecBackoff are the core under other    *)
(* configurations; SpecLocks is the OAuth authenticator shared by          *)
(* goroutines; SpecConnect is connector.Connect over the reconcile passes; *)
(* SpecPoll is the reconciler polled fairly against a remote service.      *)
(***************************************************************************)
EXTENDS Integers, Sequences, FiniteSets, TLC

----------------------------------------------------------------------------
(* Bounds of the model *)

MaxNow == 750            \* the clock stops advancing here
MaxTokenRequests == 3    \* token-endpoint requests the server will answer
MaxRetriesBound == 2     \* largest configured HTTPClientConfig.MaxRetries

TickSteps == {150}                       \* clock advances, in seconds
ExpiresInValues == {1, 750}              \* expires_in values the server sends
RetryWaitTimes == {1000}                 \* configured RetryWaitTime (ms)

----------------------------------------------------------------------------
(* Program constants *)

StatusOK == 200
StatusTooManyRequests == 429
StatusInternalServerError == 500
ExpiryBufferSeconds == 300
RefreshMarginSeconds == 5 * 60

NoToken == 0             \* the empty string "" of cachedToken
ZeroTime == 0 - 1000000  \* time.Time{}: long before any instant of the clock
TransportErr == 0        \* outcome of an attempt whose httpClient.Do fails
NoResp == 0              \* a nil *http.Response

\* What one attempt of httpClient.Do can yield: a transport error or a status
Statuses == {200, 404, 429, 500}
Outcomes == {TransportErr} \cup Statuses

\* What the token endpoint can yield
TokenOutcomes == {"ok", "neterr", "non200", "badjson"}

\* Statuses of the token endpoint's non-200 answers
TokenFailStatuses == {401, 500}
NoStatus == 0            \* no response was received

Ops == {"GetToken", "GetAuthHeader", "RefreshIfNeeded", "Do"}

NilErr == << >>
ErrRefresh == "failed to refresh authentication"
ErrHeader == "failed to get authorization header"
ErrRetries == "request failed after retries"

VARIABLES
    now,              \* time.Now(), seconds
    ctxDone,          \* the ctx passed to Do has been cancelled
    cachedToken,      \* V2OAuthAuth.cachedToken (NoToken = "")
    cachedExpiresAt,  \* V2OAuthAuth.cachedExpiresAt
    cacheSrc,         \* ghost: issue instant and expires_in behind the cache entry
    tokenRequests,    \* requests sent to the token endpoint so far
    config,           \* HostingerClient.config
    op,               \* the call in progress or just returned
    pc,               \* the step the call is at
    snap,             \* ghost: what the call read from the cache and the clock
    pending,          \* getToken's locals token, expiresAt
    callTokenReqs,    \* token-endpoint requests made by the current call
    tokenOutcome,     \* how the current call's last token request ended
    reqCtx,           \* Do: the *http.Request carries the same ctx
    attempt,          \* Do: loop variable
    outcomes,         \* Do: outcome of every httpClient.Do so far
    closed,           \* Do: attempts whose resp.Body Do has closed
    waits,            \* Do: durations passed to time.Sleep
    resp,             \* Do: local resp, the attempt it came from, or NoResp
    retToken,         \* returned token (GetToken) or header token
    retHeader,        \* returned Authorization header value, << >> = ""
    tokenStatus,      \* status of the current call's last token response
    retErr,           \* returned error: chain of messages, NilErr = nil
    callerHeaders,    \* the headers the caller puts on the requests it builds
    header,           \* Do: req.Header of the request in hand
    sent,             \* Do: the headers each httpClient.Do sent to the server
    authCalls,        \* the authenticator methods the current call has entered
    inst,             \* instance client: the *Instance argument, << >> = nil
    params,           \* instance client: the *InstanceParameters argument
    utd,              \* instance client: what UpToDate did
    liHist,           \* instance client: the LateInitialize calls made so far
    observation,      \* instance client: what GetObservation returned, << >> = not called
    errStatus,        \* classifier: the status argument
    errMessage,       \* classifier: the message argument
    classified,       \* classifier: what ClassifyError returned, << >> = not called
    errArg,           \* classifier: the error handed to the predicates
    predicates,       \* classifier: what the five predicates returned, << >> = not called
    externalName,     \* reconciler: meta.GetExternalName(cr)
    forProvider,      \* reconciler: cr.Spec.ForProvider
    atProvider,       \* reconciler: cr.Status.AtProvider
    rop,              \* reconciler: the external method running or just returned
    rpc,              \* reconciler: the step the method is at
    pre,              \* reconciler ghost: the managed resource when the method began
    calls,            \* reconciler: the calls the method made to the resource client
    fetched,          \* reconciler: the method's local instance, << >> = nil
    result,           \* reconciler: the returned struct
    rerr,             \* reconciler: the returned error
    providerConfig,   \* resolver: config.Spec of the ProviderConfig
    secrets,          \* resolver: the Secrets of the cluster, by name
    facRet,           \* resolver: what CreateAuthenticator returned
    secretRet,        \* resolver: what a direct getSecretValue returned
    keyAuth,          \* key-pair authenticator: the *V1KeyAuth
    keyCalls,         \* key-pair authenticator: the calls made on it and their results
    mu,               \* V2OAuthAuth.mu: the goroutines holding it shared, and exclusively
    gor,              \* the goroutines calling the OAuth authenticator: step, call, locals
    issued,           \* ghost: the expiry computed from each token response, ZeroTime
                      \* for a failed request
    auths,            \* connector: the OAuth authenticators the Connect calls built
    connected,        \* connector: the Connect call of each reconcile pass
    served,           \* connector ghost: the GetToken calls of the passes
    gone              \* remote service: the identities of the instances it has lost

\* the state of the HTTP client core and its authenticator
coreVars == << now, ctxDone, cachedToken, cachedExpiresAt, cacheSrc, tokenRequests,
               config, op, pc, snap, pending, callTokenReqs, tokenOutcome, reqCtx,
               attempt, outcomes, closed, waits, resp, retToken, retErr,
               retHeader, tokenStatus, callerHeaders, header, sent, authCalls >>

\* the arguments and results of the instance client's pure functions
pureVars == << inst, params, utd, liHist, observation >>

\* the arguments and results of the error classifier
clsVars == << errStatus, errMessage, classified, errArg, predicates >>

\* the managed resource and the reconciler's call
recVars == << externalName, forProvider, atProvider, rop, rpc, pre, calls,
              fetched, result, rerr >>

\* the ProviderConfig, the cluster and the credential resolver's results
facVars == << providerConfig, secrets, facRet, secretRet >>

\* the key-pair authenticator and the calls made on it
keyVars == << keyAuth, keyCalls >>

\* the lock of the OAuth authenticator and the goroutines sharing it
lockVars == << mu, gor, issued >>

\* the authenticators built for the reconcile passes
conVars == << auths, connected, served >>

\* the remote service behind the resource client
remVars == << gone >>

vars == << coreVars, pureVars, clsVars, recVars, facVars, keyVars, lockVars, conVars,
           remVars >>

\* what the actions of one component leave alone
exceptCore == << pureVars, clsVars, recVars, facVars, keyVars, lockVars, conVars,
    remVars >>
exceptPure == << coreVars, clsVars, recVars, facVars, keyVars, lockVars, conVars,
    remVars >>
exceptCls == << coreVars, pureVars, recVars, facVars, keyVars, lockVars, conVars,
    remVars >>
exceptRec == << coreVars, pureVars, clsVars, facVars, keyVars, lockVars, conVars,
    remVars >>
exceptFac == << coreVars, pureVars, clsVars, recVars, keyVars, lockVars, conVars,
    remVars >>
exceptKey == << coreVars, pureVars, clsVars, recVars, facVars, lockVars, conVars,
    remVars >>
exceptLock == << pureVars, clsVars, recVars, facVars, keyVars, conVars, remVars >>
exceptCon == << pureVars, clsVars, recVars, facVars, keyVars, lockVars, remVars >>

----------------------------------------------------------------------------
(* auth.V2OAuthAuth *)

\* Variant: a cached token is served whatever its expiry
CacheValidIgnoringExpiry(tok, exp, t) == tok # NoToken

\* getToken's test under RLock: the cache can be served
CacheValid(tok, exp, t) == tok # NoToken /\ t < exp

\* RefreshIfNeeded's test under RLock
NeedsRefresh(tok, exp, t) == tok = NoToken \/ t > exp - RefreshMarginSeconds

\* Variant: the message does not name the status
TokenStatusErrNoCode(status) == "token request failed with status"

\* refreshToken, fmt.Errorf("token request failed with status %d", resp.StatusCode)
TokenStatusErr(status) ==
    IF status = 401 THEN "token request failed with status 401"
    ELSE IF status = 500 THEN "token request failed with status 500"
    ELSE "token request failed with status ?"

\* GetAuthHeader, fmt.Sprintf("Bearer %s", token)
BearerHeader(tok) == <<"Bearer", tok>>

\* the statuses a token response with the given outcome can carry
TokenStatusesOf(outcome) ==
    IF outcome = "neterr" THEN {NoStatus}
    ELSE IF outcome = "non200" THEN TokenFailStatuses
    ELSE {StatusOK}

\* Variant: the expiry is stored without the 5-minute buffer
refreshTokenNoBuffer(outcome, status, ttl, t, n) ==
    IF outcome = "ok"
    THEN [token |-> n, expiresAt |-> t + ttl, err |-> NilErr]
    ELSE [token |-> NoToken, expiresAt |-> ZeroTime, err |-> <<"failed to request token">>]

\* refreshToken: one POST to the token endpoint, answered with `outcome`;
\* n is the number of the request, which names the token the server issues
refreshToken(outcome, status, ttl, t, n) ==
    IF outcome = "neterr" THEN
        [token |-> NoToken, expiresAt |-> ZeroTime, err |-> <<"failed to request token">>]
    ELSE IF outcome = "non200" THEN
        [token |-> NoToken, expiresAt |-> ZeroTime, err |-> <<TokenStatusErr(status)>>]
    ELSE IF outcome = "badjson" THEN
        [token |-> NoToken, expiresAt |-> ZeroTime, err |-> <<"failed to decode token response">>]
    ELSE
        [token |-> n, expiresAt |-> t + (ttl - ExpiryBufferSeconds), err |-> NilErr]

NoSnap == [tok |-> NoToken, exp |-> ZeroTime, now |-> 0]
NoPending == [token |-> NoToken, expiresAt |-> ZeroTime, at |-> 0, ttl |-> 0]

\* Outcomes the token endpoint can give to the current call: a request whose
\* context is already cancelled fails in the transport
TokenOutcomesNow == IF ctxDone THEN {"neterr"} ELSE TokenOutcomes

----------------------------------------------------------------------------
(* instance.InstanceClient: the pure functions of the resource client.     *)
(* A Go pointer is a sequence: << >> is nil, <<v>> points to v.            *)

LateInitCalls == 2       \* LateInitialize calls made on one pair of arguments

\* the remote instances the functions are applied to
Instances ==
    [ ID : {"vps-1"}, Hostname : {"web"}, Status : {"active"},
      IPAddress : {"192.0.2.1"}, IPv6Address : {""},
      OSId : {"", "debian"}, CPUCount : {2}, RAM : {1024}, DiskSize : {20},
      Bandwidth : {<< >>, <<100>>},
      CreationDate : {<< >>}, ExpirationDate : {<< >>},
      IPv6Enabled : BOOLEAN, Inodes : {<< >>, <<1000>>} ]

\* the desired parameters: each field unset, equal to the remote value the
\* domain above can hold, or different from it
InstanceParameters ==
    [ Hostname : {"", "web", "db"}, OSId : {"", "debian", "ubuntu"},
      CPUCount : {0, 2, 4}, RAM : {0, 1024, 2048}, DiskSize : {0, 20, 40},
      Bandwidth : {<< >>, <<100>>, <<200>>},
      IPv6Enabled : {<< >>, <<TRUE>>, <<FALSE>>},
      Inodes : {<< >>, <<1000>>, <<2000>>} ]

\* time.Parse(time.RFC3339, s): the instant in Unix seconds, << >> on a parse error
ParseRFC3339(s) ==
    IF s = "2024-01-15T10:30:00Z" THEN <<1705314600>>
    ELSE IF s = "2025-01-15T10:30:00Z" THEN <<1736937000>>
    ELSE << >>

\* Variant: a date that does not parse becomes the zero time
parseTimeZeroOnError(timeStr) ==
    IF timeStr = << >> THEN << >>
    ELSE IF timeStr[1] = "" THEN << >>
    ELSE IF ParseRFC3339(timeStr[1]) = << >> THEN << 0 >>
    ELSE ParseRFC3339(timeStr[1])

\* parseTime
parseTime(timeStr) ==
    IF timeStr = << >> THEN << >>
    ELSE IF timeStr[1] = "" THEN << >>
    ELSE ParseRFC3339(timeStr[1])

\* &v1beta1.InstanceObservation{}
ZeroObservation ==
    [ ID |-> "", Status |-> "", IPAddress |-> "", IPv6Address |-> "",
      CurrentHostname |-> "", CurrentCPUCount |-> 0, CurrentRAM |-> 0,
      CurrentDiskSize |-> 0, CreationDate |-> << >>, ExpirationDate |-> << >>,
      CurrentBandwidth |-> << >>, CurrentInodes |-> << >> ]

\* Variant: the observation is always the zero value
GetObservationZero(instance) == ZeroObservation

\* InstanceClient.GetObservation
GetObservation(instance) ==
    IF instance = << >> THEN ZeroObservation
    ELSE LET i == instance[1] IN
        [ ID |-> i.ID, Status |-> i.Status, IPAddress |-> i.IPAddress,
          IPv6Address |-> i.IPv6Address, CurrentHostname |-> i.Hostname,
          CurrentCPUCount |-> i.CPUCount, CurrentRAM |-> i.RAM,
          CurrentDiskSize |-> i.DiskSize,
          CreationDate |-> parseTime(i.CreationDate),
          ExpirationDate |-> parseTime(i.ExpirationDate),
          CurrentBandwidth |-> i.Bandwidth, CurrentInodes |-> i.Inodes ]

\* Variant: the operating system is copied whether or not the caller set it
LateInitializeOverwriting(instance, p) ==
    IF instance = << >> THEN [params |-> p, changed |-> FALSE]
    ELSE LET i == instance[1] IN
        [ params |-> [p EXCEPT !.OSId = i.OSId], changed |-> TRUE ]

\* Variant: an unset IPv6 flag is initialised to true whatever the instance has
LateInitializeIPv6Always(instance, p) ==
    IF instance = << >> THEN [params |-> p, changed |-> FALSE]
    ELSE LET i == instance[1]
             osId == p.OSId = "" /\ i.OSId # ""
             bandwidth == p.Bandwidth = << >> /\ i.Bandwidth # << >>
             ipv6 == p.IPv6Enabled = << >>
             inodes == p.Inodes = << >> /\ i.Inodes # << >>
         IN [ params |->
                [p EXCEPT !.OSId = IF osId THEN i.OSId ELSE @,
                          !.Bandwidth = IF bandwidth THEN i.Bandwidth ELSE @,
                          !.IPv6Enabled = IF ipv6 THEN <<TRUE>> ELSE @,
                          !.Inodes = IF inodes THEN i.Inodes ELSE @],
              changed |-> osId \/ bandwidth \/ ipv6 \/ inodes ]

\* InstanceClient.LateInitialize: the parameters it leaves and the flag it returns
LateInitialize(instance, p) ==
    IF instance = << >> THEN [params |-> p, changed |-> FALSE]
    ELSE LET i == instance[1]
             osId == p.OSId = "" /\ i.OSId # ""
             bandwidth == p.Bandwidth = << >> /\ i.Bandwidth # << >>
             ipv6 == p.IPv6Enabled = << >> /\ i.IPv6Enabled
             inodes == p.Inodes = << >> /\ i.Inodes # << >>
         IN [ params |->
                [p EXCEPT !.OSId = IF osId THEN i.OSId ELSE @,
                          !.Bandwidth = IF bandwidth THEN i.Bandwidth ELSE @,
                          !.IPv6Enabled = IF ipv6 THEN <<TRUE>> ELSE @,
                          !.Inodes = IF inodes THEN i.Inodes ELSE @],
              changed |-> osId \/ bandwidth \/ ipv6 \/ inodes ]

\* Variant: a zero CPU count, RAM or disk size is compared like a set one
UpToDateComparingZero(instance, p) ==
    IF instance = << >> THEN "false"
    ELSE LET i == instance[1] IN
        IF p.Hostname # i.Hostname THEN "false"
        ELSE IF p.CPUCount # i.CPUCount THEN "false"
        ELSE IF p.RAM # i.RAM THEN "false"
        ELSE IF p.DiskSize # i.DiskSize THEN "false"
        ELSE "true"

\* InstanceClient.UpToDate: "true", "false", or "panic" where the code
\* dereferences a nil instance.Bandwidth
UpToDate(instance, p) ==
    IF instance = << >> THEN "false"
    ELSE LET i == instance[1] IN
        IF p.Hostname # "" /\ p.Hostname # i.Hostname THEN "false"
        ELSE IF p.CPUCount > 0 /\ p.CPUCount # i.CPUCount THEN "false"
        ELSE IF p.RAM > 0 /\ p.RAM # i.RAM THEN "false"
        ELSE IF p.DiskSize > 0 /\ p.DiskSize # i.DiskSize THEN "false"
        ELSE IF p.Bandwidth # << >> /\ i.Bandwidth = << >> THEN "panic"
        ELSE IF p.Bandwidth # << >> /\ p.Bandwidth[1] # i.Bandwidth[1] THEN "false"
        ELSE IF p.IPv6Enabled # << >> /\ p.IPv6Enabled[1] # i.IPv6Enabled THEN "false"
        ELSE "true"

\* the arguments before any call of the pure functions
NoInstance == << >>
NoParameters ==
    [ Hostname |-> "", OSId |-> "", CPUCount |-> 0, RAM |-> 0, DiskSize |-> 0,
      Bandwidth |-> << >>, IPv6Enabled |-> << >>, Inodes |-> << >> ]

PureIdle ==
    /\ inst = NoInstance
    /\ params = NoParameters
    /\ utd = << >>
    /\ liHist = << >>
    /\ observation = << >>

----------------------------------------------------------------------------
(* clients: classified errors, src/unnamed/part_004.                       *)
(* An error value is a record; kind names its dynamic type.                *)

MaxStatus == 599         \* largest status handed to ClassifyError

StatusUnauthorized == 401
StatusForbidden == 403
StatusNotFound == 404
StatusConflict == 409
StatusBadGateway == 502
StatusServiceUnavailable == 503
StatusGatewayTimeout == 504

ErrorTypes == {"NotFound", "Unauthorized", "Forbidden", "InvalidConfig",
               "RateLimit", "Conflict", "Internal", "Unknown"}

\* the arguments ClassifyError is applied to
ClassifyStatuses == (0 - 1) .. MaxStatus
ClassifyMessages == {"", "gone", "boom"}

\* a nil error
NilError == [kind |-> "nil", Type |-> "", Message |-> "", Status |-> 0]

\* &HostingerError{Type, Message, Status}
HostingerError(type, message, status) ==
    [kind |-> "HostingerError", Type |-> type, Message |-> message, Status |-> status]

\* fmt.Errorf(message): an error that is no *HostingerError
PlainError(message) ==
    [kind |-> "error", Type |-> "", Message |-> message, Status |-> 0]

\* fmt.Errorf("...: %w", he): the dynamic type is the wrapper's, the
\* HostingerError is only reachable through Unwrap
WrapError(he) ==
    [kind |-> "wrapError", Type |-> he.Type, Message |-> he.Message, Status |-> he.Status]

\* Variant: the HostingerError is looked for along the Unwrap chain
IsNotFoundUnwrapping(err) ==
    IF err.kind = "nil" THEN FALSE
    ELSE IF err.kind \in {"HostingerError", "wrapError"}
         THEN err.Type = "NotFound" \/ err.Status = StatusNotFound
         ELSE FALSE

\* Variant: no error is ever recognised as NotFound
IsNotFoundNever(err) == FALSE

\* IsNotFound
IsNotFound(err) ==
    IF err.kind = "nil" THEN FALSE
    ELSE IF err.kind = "HostingerError"
         THEN err.Type = "NotFound" \/ err.Status = StatusNotFound
         ELSE FALSE

\* IsUnauthorized
IsUnauthorized(err) ==
    IF err.kind = "nil" THEN FALSE
    ELSE IF err.kind = "HostingerError"
         THEN err.Type = "Unauthorized" \/ err.Status = StatusUnauthorized
         ELSE FALSE

\* IsForbidden
IsForbidden(err) ==
    IF err.kind = "nil" THEN FALSE
    ELSE IF err.kind = "HostingerError"
         THEN err.Type = "Forbidden" \/ err.Status = StatusForbidden
         ELSE FALSE

\* IsConflict
IsConflict(err) ==
    IF err.kind = "nil" THEN FALSE
    ELSE IF err.kind = "HostingerError"
         THEN err.Type = "Conflict" \/ err.Status = StatusConflict
         ELSE FALSE

\* Variant: the status alone does not make a rate-limit error
IsRateLimitByTypeOnly(err) ==
    IF err.kind = "nil" THEN FALSE
    ELSE IF err.kind = "HostingerError" THEN err.Type = "RateLimit"
         ELSE FALSE

\* IsRateLimit
IsRateLimit(err) ==
    IF err.kind = "nil" THEN FALSE
    ELSE IF err.kind = "HostingerError"
         THEN err.Type = "RateLimit" \/ err.Status = StatusTooManyRequests
         ELSE FALSE

\* Variant: the gateway statuses are not mapped
ClassifyErrorNoGateway(status, message) ==
    HostingerError(
        IF status = StatusNotFound THEN "NotFound"
        ELSE IF status = StatusUnauthorized THEN "Unauthorized"
        ELSE IF status = StatusForbidden THEN "Forbidden"
        ELSE IF status = StatusConflict THEN "Conflict"
        ELSE IF status = StatusTooManyRequests THEN "RateLimit"
        ELSE IF status \in {StatusInternalServerError, StatusServiceUnavailable} THEN "Internal"
        ELSE "Unknown",
        message, status)

\* ClassifyError
ClassifyError(status, message) ==
    HostingerError(
        IF status = StatusNotFound THEN "NotFound"
        ELSE IF status = StatusUnauthorized THEN "Unauthorized"
        ELSE IF status = StatusForbidden THEN "Forbidden"
        ELSE IF status = StatusConflict THEN "Conflict"
        ELSE IF status = StatusTooManyRequests THEN "RateLimit"
        ELSE IF status \in {StatusInternalServerError, StatusBadGateway,
                            StatusServiceUnavailable, StatusGatewayTimeout} THEN "Internal"
        ELSE "Unknown",
        message, status)

\* the errors built from one status and message that the predicates are applied to
ErrorsOf(status, message) ==
    {NilError, PlainError(message)}
        \cup { HostingerError(t, message, status) : t \in ErrorTypes }
        \cup { WrapError(HostingerError(t, message, status)) : t \in ErrorTypes }

ClsIdle ==
    /\ errStatus = 0
    /\ errMessage = ""
    /\ classified = << >>
    /\ errArg = NilError
    /\ predicates = << >>

----------------------------------------------------------------------------
(* controller/instance: the external client of the managed reconciler.     *)
(* The resource client behind instanceclient.Client is the environment:    *)
(* each of its CRUD methods answers with an instance or with an error.     *)

Methods == {"Observe", "Create", "Update", "Delete"}

\* identities the remote service gives to instances
RemoteIDs == {"vps-1", "vps-2"}

\* the instances the resource client can return
RemoteInstances == { [i EXCEPT !.ID = id] : i \in Instances, id \in RemoteIDs }

\* the desired parameters a managed resource starts with
DesiredParameters ==
    [ Hostname : {"web"}, OSId : {"", "debian"}, CPUCount : {2},
      RAM : {1024, 2048}, DiskSize : {20}, Bandwidth : {<< >>, <<100>>},
      IPv6Enabled : {<< >>, <<FALSE>>}, Inodes : {<< >>} ]

\* the errors the resource client can return
ClientErrors ==
    { ClassifyError(StatusNotFound, "gone"),
      ClassifyError(StatusUnauthorized, "boom"),
      ClassifyError(StatusInternalServerError, "boom"),
      HostingerError("Unknown", "gone", StatusNotFound),
      HostingerError("NotFound", "gone", 0),
      WrapError(ClassifyError(StatusNotFound, "gone")),
      PlainError("not implemented yet") }

\* managed.ExternalObservation{}, managed.ExternalCreation{}, managed.ExternalUpdate{}
NoResult ==
    [ResourceExists |-> FALSE, ResourceUpToDate |-> FALSE, ExternalNameAssigned |-> FALSE]

\* fmt.Errorf("external name not set")
ErrNoExternalName == PlainError("external name not set")

\* Variant: an empty external name counts as recorded
NameSetAlways(name) == TRUE

\* externalName == "" is the test for "no identity recorded"
NameSet(name) == name # ""

\* Variant: the annotation is left as it was
SetExternalNameKeeping(name, id) == name

\* meta.SetExternalName(cr, instance.ID)
SetExternalName(name, id) == id

\* one entry of the log of what a method did with the resource client
Called(m, id, err) == [m |-> m, id |-> id, err |-> err]

RecIdle ==
    /\ externalName = ""
    /\ forProvider = NoParameters
    /\ atProvider = ZeroObservation
    /\ rop = "none"
    /\ rpc = "idle"
    /\ pre = [externalName |-> "", forProvider |-> NoParameters, atProvider |-> ZeroObservation]
    /\ calls = << >>
    /\ fetched = << >>
    /\ result = NoResult
    /\ rerr = NilError

----------------------------------------------------------------------------
(* auth: the credential resolver, src/unnamed/part_005.                    *)
(* A string read from a Secret is a sequence of bytes, << >> is "".        *)

\* the Secrets a reference can name, and the keys of their Data
SecretNames == {"creds", "other"}
SecretKeys == {"id", "key"}

\* the values a key of a Secret can hold: "" and "a"
SecretValues == {<< >>, <<97>>}

\* Secret.Data: each key absent (<< >>) or present with a value
SecretDatas ==
    [ id : {<< >>} \cup { <<v>> : v \in SecretValues },
      key : {<< >>} \cup { <<v>> : v \in SecretValues } ]

\* the cluster: each Secret not found (<< >>) or found with its Data
Clusters == [ SecretNames -> {<< >>} \cup { <<d>> : d \in SecretDatas } ]

\* xpv1.SecretKeySelector
SecretRefs == [ Name : SecretNames, Key : SecretKeys ]

\* v1beta1.ProviderConfigSpec: each credential block nil (<< >>) or present
ProviderConfigs ==
    [ APIKeyAuth : {<< >>} \cup
          { <<a>> : a \in [ APIKeySecretRef : [Name : SecretNames, Key : {"key"}],
                            CustomerIDSecretRef : [Name : SecretNames, Key : {"id"}],
                            Endpoint : {"", "https://example.test/v1"} ] },
      OAuthAuth : {<< >>} \cup
          { <<o>> : o \in [ ClientIDSecretRef : [Name : SecretNames, Key : {"id"}],
                            ClientSecretSecretRef : [Name : SecretNames, Key : {"key"}],
                            Endpoint : {"", "https://example.test/v2"},
                            TokenEndpoint : {"", "https://example.test/token"} ] } ]

\* fmt.Errorf(message + ": %w", err)
WrapWith(message, err) ==
    [kind |-> "wrapError", Type |-> err.Type, Message |-> message, Status |-> err.Status]

\* NewV1KeyAuth
NewV1KeyAuth(apiKey, customerID, endpoint) ==
    [ Type |-> "APIKeyAuth", APIKey |-> apiKey, CustomerID |-> customerID,
      Endpoint |-> endpoint ]

\* NewV2OAuthAuth; the token cache starts empty
NewV2OAuthAuth(clientID, clientSecret, endpoint, tokenEndpoint) ==
    [ Type |-> "OAuthAuth", ClientID |-> clientID, ClientSecret |-> clientSecret,
      Endpoint |-> endpoint,
      TokenEndpoint |-> IF tokenEndpoint = "" THEN "https://auth.hostinger.com/oauth/token"
                        ELSE tokenEndpoint ]

\* Variant: a missing Secret or key yields the empty string and no error
getSecretValueDefaulting(cluster, secretRef) ==
    IF secretRef = << >>
    THEN [value |-> << >>, err |-> PlainError("secret reference is nil"), gets |-> << >>]
    ELSE LET ref == secretRef[1]
             secret == cluster[ref.Name]
         IN IF secret = << >> THEN [value |-> << >>, err |-> NilError, gets |-> <<ref>>]
            ELSE IF secret[1][ref.Key] = << >>
                 THEN [value |-> << >>, err |-> NilError, gets |-> <<ref>>]
                 ELSE [value |-> secret[1][ref.Key][1], err |-> NilError, gets |-> <<ref>>]

\* getSecretValue: the value, the error, and the references it asked the
\* cluster for (k8sClient.Get)
getSecretValue(cluster, secretRef) ==
    IF secretRef = << >>
    THEN [value |-> << >>, err |-> PlainError("secret reference is nil"), gets |-> << >>]
    ELSE LET ref == secretRef[1]
             secret == cluster[ref.Name]
         IN IF secret = << >>
            THEN [value |-> << >>,
                  err |-> WrapWith("failed to get secret", PlainError("not found")),
                  gets |-> <<ref>>]
            ELSE IF secret[1][ref.Key] = << >>
                 THEN [value |-> << >>, err |-> PlainError("key not found in secret"),
                       gets |-> <<ref>>]
                 ELSE [value |-> secret[1][ref.Key][1], err |-> NilError, gets |-> <<ref>>]

\* createV1KeyAuth: the authenticator (<< >> = nil), the error and the lookups
createV1KeyAuth(cluster, authSpec) ==
    LET apiKey == getSecretValue(cluster, <<authSpec.APIKeySecretRef>>) IN
    IF apiKey.err # NilError
    THEN [authn |-> << >>, gets |-> apiKey.gets,
          err |-> WrapWith("failed to get API key from secret", apiKey.err)]
    ELSE LET customerID == getSecretValue(cluster, <<authSpec.CustomerIDSecretRef>>) IN
         IF customerID.err # NilError
         THEN [authn |-> << >>, gets |-> apiKey.gets \o customerID.gets,
               err |-> WrapWith("failed to get customer ID from secret", customerID.err)]
         ELSE [authn |-> << NewV1KeyAuth(apiKey.value, customerID.value,
                                IF authSpec.Endpoint = "" THEN "https://api.hostinger.com/v1"
                                ELSE authSpec.Endpoint) >>,
               gets |-> apiKey.gets \o customerID.gets,
               err |-> NilError]

\* createV2OAuthAuth
createV2OAuthAuth(cluster, authSpec) ==
    LET clientID == getSecretValue(cluster, <<authSpec.ClientIDSecretRef>>) IN
    IF clientID.err # NilError
    THEN [authn |-> << >>, gets |-> clientID.gets,
          err |-> WrapWith("failed to get client ID from secret", clientID.err)]
    ELSE LET clientSecret == getSecretValue(cluster, <<authSpec.ClientSecretSecretRef>>) IN
         IF clientSecret.err # NilError
         THEN [authn |-> << >>, gets |-> clientID.gets \o clientSecret.gets,
               err |-> WrapWith("failed to get client secret from secret", clientSecret.err)]
         ELSE [authn |-> << NewV2OAuthAuth(clientID.value, clientSecret.value,
                                IF authSpec.Endpoint = "" THEN "https://api.hostinger.com/v2"
                                ELSE authSpec.Endpoint,
                                IF authSpec.TokenEndpoint = ""
                                THEN "https://auth.hostinger.com/oauth/token"
                                ELSE authSpec.TokenEndpoint) >>,
               gets |-> clientID.gets \o clientSecret.gets,
               err |-> NilError]

\* CreateAuthenticator
CreateAuthenticator(cluster, spec) ==
    IF spec.APIKeyAuth # << >> THEN createV1KeyAuth(cluster, spec.APIKeyAuth[1])
    ELSE IF spec.OAuthAuth # << >> THEN createV2OAuthAuth(cluster, spec.OAuthAuth[1])
    ELSE [authn |-> << >>, gets |-> << >>,
          err |-> PlainError("no authentication method configured in ProviderConfig")]

FacIdle ==
    /\ providerConfig = [APIKeyAuth |-> << >>, OAuthAuth |-> << >>]
    /\ secrets = [n \in SecretNames |-> << >>]
    /\ facRet = << >>
    /\ secretRet = << >>

\* no key-pair authenticator in use
KeyIdle ==
    /\ keyAuth = [Type |-> "APIKeyAuth", APIKey |-> << >>, CustomerID |-> << >>,
                  Endpoint |-> ""]
    /\ keyCalls = << >>

\* the goroutines that share one OAuth authenticator
Goroutines == {1, 2}
NoGoroutine == 0

\* a goroutine outside the authenticator; ret is the token its last call
\* returned, 0 for none
IdleGoroutine ==
    [pc |-> "idle", op |-> "none", ret |-> 0,
     pending |-> [token |-> 0, expiresAt |-> 0 - 1000000, at |-> 0, ttl |-> 0]]

\* the lock is free and every goroutine is outside the authenticator
LockIdle ==
    /\ mu = [readers |-> {}, writer |-> NoGoroutine]
    /\ gor = [g \in Goroutines |-> IdleGoroutine]
    /\ issued = << >>

ConIdle ==
    /\ auths = << >>
    /\ connected = << >>
    /\ served = << >>

RemIdle == gone = {}

----------------------------------------------------------------------------
\* DefaultHTTPClientConfig(), RetryWaitTime in milliseconds
DefaultHTTPClientConfig ==
    [MaxRetries |-> 3, RetryWaitTime |-> 1000, UserAgent |-> "provider-hostinger/v0.1.0"]

\* configured HTTPClientConfig.UserAgent
UserAgents == {DefaultHTTPClientConfig.UserAgent}

\* http.Header of a request, by canonical name: << >> = not present, <<v>> =
\* the one value v.  Authorization holds a scheme and a token.
NoHeaders ==
    [Authorization |-> << >>, UserAgent |-> << >>, Accept |-> << >>,
     ContentType |-> << >>]

\* headers a caller may have put on the request before handing it to Do
CallerHeaders ==
    { NoHeaders,
      [NoHeaders EXCEPT !.ContentType = <<"application/json">>],
      [Authorization |-> << BearerHeader(NoToken) >>, UserAgent |-> <<"curl/8">>,
       Accept |-> <<"text/plain">>, ContentType |-> <<"application/json">>] }

\* Variant: the headers are written to a fresh map
PrepareRequestHeadersFresh(h, authHeader, userAgent) ==
    [NoHeaders EXCEPT !.Authorization = << authHeader >>,
                      !.UserAgent = << userAgent >>,
                      !.Accept = <<"application/json">>]

\* PrepareRequest, the three req.Header.Set calls
PrepareRequestHeaders(h, authHeader, userAgent) ==
    [h EXCEPT !.Authorization = << authHeader >>,
              !.UserAgent = << userAgent >>,
              !.Accept = <<"application/json">>]

\* Variant: a failed PrepareRequest strips the Authorization header
HeadersOnErrorStripped(h) == [h EXCEPT !.Authorization = << >>]

\* PrepareRequest, its two early returns: req.Header as it was
HeadersOnError(h) == h

\* The client core and its authenticator after construction, configured
\* with one of configs
InitCore(configs, headers) ==
    /\ now = 0
    /\ ctxDone = FALSE
    /\ cachedToken = NoToken
    /\ cachedExpiresAt = ZeroTime
    /\ cacheSrc = [at |-> 0, ttl |-> 0]
    /\ tokenRequests = 0
    /\ config \in configs
    /\ op = "none"
    /\ pc = "idle"
    /\ snap = NoSnap
    /\ pending = NoPending
    /\ callTokenReqs = 0
    /\ tokenOutcome = "none"
    /\ reqCtx = FALSE
    /\ attempt = 0
    /\ outcomes = << >>
    /\ closed = {}
    /\ waits = << >>
    /\ resp = NoResp
    /\ retToken = NoToken
    /\ retHeader = << >>
    /\ tokenStatus = NoStatus
    /\ retErr = NilErr
    /\ callerHeaders \in headers
    /\ header = NoHeaders
    /\ sent = << >>
    /\ authCalls = << >>

Init ==
    /\ InitCore([MaxRetries : (0 - 1) .. MaxRetriesBound, RetryWaitTime : RetryWaitTimes,
                 UserAgent : UserAgents],
                {[NoHeaders EXCEPT !.ContentType = <<"application/json">>]})
    /\ PureIdle
    /\ ClsIdle
    /\ RecIdle
    /\ FacIdle
    /\ KeyIdle
    /\ LockIdle
    /\ ConIdle
    /\ RemIdle

\* The clock advances
Tick ==
    /\ \E d \in TickSteps : now + d <= MaxNow /\ now' = now + d
    /\ UNCHANGED << ctxDone, cachedToken, cachedExpiresAt, cacheSrc, tokenRequests,
                    config, op, pc, snap, pending, callTokenReqs, tokenOutcome, reqCtx, attempt,
                    outcomes, closed, waits, resp, retToken, retErr >>
    /\ UNCHANGED << retHeader, tokenStatus >>
    /\ UNCHANGED << callerHeaders, header, sent, authCalls >>
    /\ UNCHANGED exceptCore

\* The caller of Do cancels the context while Do runs
Cancel ==
    /\ op = "Do" /\ pc \notin {"idle", "done"}
    /\ ~ctxDone
    /\ ctxDone' = TRUE
    /\ UNCHANGED << now, cachedToken, cachedExpiresAt, cacheSrc, tokenRequests,
                    config, op, pc, snap, pending, callTokenReqs, tokenOutcome, reqCtx, attempt,
                    outcomes, closed, waits, resp, retToken, retErr >>
    /\ UNCHANGED << retHeader, tokenStatus >>
    /\ UNCHANGED << callerHeaders, header, sent, authCalls >>
    /\ UNCHANGED exceptCore

\* A caller enters GetToken, GetAuthHeader, RefreshIfNeeded or Do.  Do starts
\* in PrepareRequest, whose first statement is authenticator.RefreshIfNeeded.
Call ==
    /\ pc \in {"idle", "done"}
    /\ \E o \in Ops, rc \in BOOLEAN :
        /\ op' = o
        /\ pc' = IF o \in {"GetToken", "GetAuthHeader"} THEN "gt_check" ELSE "rin_check"
        /\ reqCtx' = (o = "Do" /\ rc)
    /\ ctxDone' = FALSE
    /\ snap' = NoSnap
    /\ pending' = NoPending
    /\ callTokenReqs' = 0
    /\ tokenOutcome' = "none"
    /\ attempt' = 0
    /\ outcomes' = << >>
    /\ closed' = {}
    /\ waits' = << >>
    /\ resp' = NoResp
    /\ retToken' = NoToken
    /\ retHeader' = << >>
    /\ tokenStatus' = NoStatus
    /\ retErr' = NilErr
    /\ UNCHANGED << now, cachedToken, cachedExpiresAt, cacheSrc, tokenRequests, config >>
    /\ header' = IF op' = "Do" THEN callerHeaders ELSE NoHeaders
    /\ sent' = << >>
    /\ authCalls' = << >>
    /\ UNCHANGED callerHeaders
    /\ UNCHANGED exceptCore

\* Variant: Do drops the error of PrepareRequest and sends the request anyway
DoPreparedIgnoringErr(err) == "do_loop"

\* Do, after PrepareRequest returned err: `return nil, err`, or the retry loop
DoPrepared(err) == IF err # NilErr THEN "done" ELSE "do_loop"

\* Variant: the loop stops one attempt early
LoopCondOneShort(att, maxRetries) == att < maxRetries

\* Do, the loop condition
LoopCond(att, maxRetries) == att <= maxRetries

\* Variant: a transport error on the final attempt is retried as well
RetryAfterErrAlways(att, maxRetries) == att <= maxRetries

\* Do, after a transport error: sleep and continue, or give up
RetryAfterErr(att, maxRetries) == att < maxRetries

\* Do, after a retryable status: sleep and continue, or fall through to break
RetryAfterStatus(att, maxRetries) == att < maxRetries

\* Variant: every client error is retried too
IsRetryableFrom400(status) == status >= 400

\* Do, the test of a retryable response
IsRetryable(status) ==
    status = StatusTooManyRequests \/ status >= StatusInternalServerError

\* RefreshIfNeeded returns nil: to its caller, or into PrepareRequest, which
\* goes on to authenticator.GetAuthHeader
RinReturnNil ==
    /\ pc' = IF op = "Do" THEN "gt_check" ELSE "done"
    /\ retErr' = NilErr

\* RefreshIfNeeded, the read of the cache under RLock
RinCheck ==
    /\ pc = "rin_check"
    /\ snap' = [tok |-> cachedToken, exp |-> cachedExpiresAt, now |-> now]
    /\ IF NeedsRefresh(cachedToken, cachedExpiresAt, now)
       THEN pc' = "rin_request" /\ retErr' = retErr
       ELSE RinReturnNil
    /\ UNCHANGED << now, ctxDone, cachedToken, cachedExpiresAt, cacheSrc, tokenRequests,
                    config, op, pending, callTokenReqs, tokenOutcome, reqCtx, attempt,
                    outcomes, closed, waits, resp, retToken >>
    /\ UNCHANGED << retHeader, tokenStatus >>
    /\ authCalls' = Append(authCalls, "RefreshIfNeeded")
    /\ UNCHANGED << callerHeaders, header, sent >>
    /\ UNCHANGED exceptCore

\* RefreshIfNeeded, `_, _, err := a.refreshToken(ctx); return err`
RinRequest ==
    /\ pc = "rin_request"
    /\ tokenRequests < MaxTokenRequests
    /\ \E o \in TokenOutcomesNow, ttl \in ExpiresInValues :
      \E st \in TokenStatusesOf(o) :
        LET r == refreshToken(o, st, ttl, now, tokenRequests + 1) IN
        /\ tokenOutcome' = o
        /\ tokenStatus' = st
        /\ IF r.err # NilErr
           THEN IF op = "Do"
                THEN /\ retErr' = <<ErrRefresh>> \o r.err
                     /\ pc' = DoPrepared(retErr')
                ELSE /\ retErr' = r.err
                     /\ pc' = "done"
           ELSE RinReturnNil
    /\ tokenRequests' = tokenRequests + 1
    /\ callTokenReqs' = callTokenReqs + 1
    /\ UNCHANGED << now, ctxDone, cachedToken, cachedExpiresAt, cacheSrc,
                    config, op, snap, pending, reqCtx, attempt,
                    outcomes, closed, waits, resp, retToken, retHeader >>
    /\ header' = IF retErr' # NilErr /\ op = "Do" THEN HeadersOnError(header) ELSE header
    /\ UNCHANGED << callerHeaders, sent, authCalls >>
    /\ UNCHANGED exceptCore

\* getToken returns tok with a nil error: to the caller of GetToken or
\* GetAuthHeader, or into PrepareRequest, which sets the headers and returns
\* nil to Do, which enters its retry loop
GtReturn(tok) ==
    /\ pc' = IF op = "Do" THEN DoPrepared(NilErr) ELSE "done"
    /\ retToken' = tok
    /\ retHeader' = IF op \in {"GetAuthHeader", "Do"} THEN BearerHeader(tok) ELSE << >>
    /\ header' = IF op = "Do"
                 THEN PrepareRequestHeaders(header, BearerHeader(tok), config.UserAgent)
                 ELSE header
    /\ retErr' = NilErr

\* getToken, the read of the cache under RLock
GtCheck ==
    /\ pc = "gt_check"
    /\ snap' = [tok |-> cachedToken, exp |-> cachedExpiresAt, now |-> now]
    /\ IF CacheValid(cachedToken, cachedExpiresAt, now)
       THEN GtReturn(cachedToken)
       ELSE /\ pc' = "gt_request" /\ retToken' = retToken /\ retErr' = retErr
            /\ retHeader' = retHeader /\ header' = header
    /\ UNCHANGED << now, ctxDone, cachedToken, cachedExpiresAt, cacheSrc, tokenRequests,
                    config, op, pending, callTokenReqs, tokenOutcome, reqCtx, attempt,
                    outcomes, closed, waits, resp, tokenStatus >>
    /\ authCalls' = Append(authCalls, IF op = "GetToken" THEN "GetToken" ELSE "GetAuthHeader")
    /\ UNCHANGED << callerHeaders, sent >>
    /\ UNCHANGED exceptCore

\* getToken, `token, expiresAt, err := a.refreshToken(ctx)`
GtRequest ==
    /\ pc = "gt_request"
    /\ tokenRequests < MaxTokenRequests
    /\ \E o \in TokenOutcomesNow, ttl \in ExpiresInValues :
      \E st \in TokenStatusesOf(o) :
        LET r == refreshToken(o, st, ttl, now, tokenRequests + 1) IN
        /\ tokenOutcome' = o
        /\ tokenStatus' = st
        /\ IF r.err # NilErr
           THEN /\ pending' = pending
                /\ IF op = "Do"
                   THEN /\ retErr' = <<ErrHeader>> \o r.err
                        /\ pc' = DoPrepared(retErr')
                   ELSE /\ retErr' = r.err
                        /\ pc' = "done"
           ELSE /\ pc' = "gt_store"
                /\ retErr' = retErr
                /\ pending' = [token |-> r.token, expiresAt |-> r.expiresAt,
                               at |-> now, ttl |-> ttl]
    /\ tokenRequests' = tokenRequests + 1
    /\ callTokenReqs' = callTokenReqs + 1
    /\ UNCHANGED << now, ctxDone, cachedToken, cachedExpiresAt, cacheSrc,
                    config, op, snap, reqCtx, attempt,
                    outcomes, closed, waits, resp, retToken, retHeader >>
    /\ header' = IF retErr' # NilErr /\ op = "Do" THEN HeadersOnError(header) ELSE header
    /\ UNCHANGED << callerHeaders, sent, authCalls >>
    /\ UNCHANGED exceptCore

\* getToken, the write of the cache under Lock, and the return
GtStore ==
    /\ pc = "gt_store"
    /\ cachedToken' = pending.token
    /\ cachedExpiresAt' = pending.expiresAt
    /\ cacheSrc' = [at |-> pending.at, ttl |-> pending.ttl]
    /\ GtReturn(pending.token)
    /\ UNCHANGED << now, ctxDone, tokenRequests, config, op, snap, pending,
                    callTokenReqs, tokenOutcome, reqCtx, attempt, outcomes, closed,
                    waits, resp, tokenStatus >>
    /\ UNCHANGED << callerHeaders, sent, authCalls >>
    /\ UNCHANGED exceptCore

----------------------------------------------------------------------------
(* clients.HostingerClient.Do, the retry loop *)

\* what httpClient.Do(req) can yield now: a request bound to a cancelled
\* context fails in the transport
OutcomesNow == IF reqCtx /\ ctxDone THEN {TransportErr} ELSE Outcomes

\* the loop condition fails: `return resp, nil`
DoExit ==
    /\ pc = "do_loop"
    /\ ~LoopCond(attempt, config.MaxRetries)
    /\ pc' = "done"
    /\ retErr' = NilErr
    /\ UNCHANGED << now, ctxDone, cachedToken, cachedExpiresAt, cacheSrc, tokenRequests,
                    config, op, snap, pending, callTokenReqs, tokenOutcome, reqCtx, attempt,
                    outcomes, closed, waits, resp, retToken >>
    /\ UNCHANGED << retHeader, tokenStatus >>
    /\ UNCHANGED << callerHeaders, header, sent, authCalls >>
    /\ UNCHANGED exceptCore

\* Variant: a retry goes out without the Authorization header
SentHeadersFirstOnly(h, att) ==
    IF att = 0 THEN h ELSE [h EXCEPT !.Authorization = << >>]

\* hc.httpClient.Do(req): attempt att sends the headers of req as they are
SentHeaders(h, att) == h

\* one iteration of the loop up to its sleep, continue, break or return
DoAttempt ==
    /\ pc = "do_loop"
    /\ LoopCond(attempt, config.MaxRetries)
    /\ \E out \in OutcomesNow :
        LET k == Len(outcomes) + 1 IN
        /\ outcomes' = Append(outcomes, out)
        /\ IF out = TransportErr
           THEN /\ closed' = closed
                /\ IF RetryAfterErr(attempt, config.MaxRetries)
                   THEN pc' = "do_sleep" /\ retErr' = retErr /\ resp' = NoResp
                   ELSE pc' = "done" /\ retErr' = <<ErrRetries, "transport">>
                        /\ resp' = NoResp
           ELSE /\ resp' = k
                /\ retErr' = NilErr
                /\ closed' = IF IsRetryable(out) THEN closed \cup {k} ELSE closed
                /\ pc' = IF IsRetryable(out) /\ RetryAfterStatus(attempt, config.MaxRetries)
                         THEN "do_sleep" ELSE "done"
    /\ UNCHANGED << now, ctxDone, cachedToken, cachedExpiresAt, cacheSrc, tokenRequests,
                    config, op, snap, pending, callTokenReqs, tokenOutcome, reqCtx, attempt,
                    waits, retToken >>
    /\ UNCHANGED << retHeader, tokenStatus >>
    /\ sent' = Append(sent, SentHeaders(header, attempt))
    /\ UNCHANGED << callerHeaders, header, authCalls >>
    /\ UNCHANGED exceptCore

\* Variant: the same wait before every retry
BackoffFlat(wait, att) == wait

\* Do, the argument of time.Sleep before the retry that follows attempt att
Backoff(wait, att) == wait * (att + 1)

\* `time.Sleep(hc.config.RetryWaitTime * time.Duration(attempt+1)); continue`
DoSleep ==
    /\ pc = "do_sleep"
    /\ waits' = Append(waits, Backoff(config.RetryWaitTime, attempt))
    /\ attempt' = attempt + 1
    /\ pc' = "do_loop"
    /\ UNCHANGED << now, ctxDone, cachedToken, cachedExpiresAt, cacheSrc, tokenRequests,
                    config, op, snap, pending, callTokenReqs, tokenOutcome, reqCtx,
                    outcomes, closed, resp, retToken, retErr >>
    /\ UNCHANGED << retHeader, tokenStatus >>
    /\ UNCHANGED << callerHeaders, header, sent, authCalls >>
    /\ UNCHANGED exceptCore

----------------------------------------------------------------------------
Next ==
    \/ Tick
    \/ Cancel
    \/ Call
    \/ RinCheck
    \/ RinRequest
    \/ GtCheck
    \/ GtRequest
    \/ GtStore
    \/ DoExit
    \/ DoAttempt
    \/ DoSleep

Spec == Init /\ [][Next]_vars

TypeOK ==
    /\ now \in 0 .. MaxNow
    /\ cachedToken \in 0 .. MaxTokenRequests
    /\ tokenRequests \in 0 .. MaxTokenRequests
    /\ op \in Ops \cup {"none"}
    /\ tokenOutcome \in TokenOutcomes \cup {"none"}
    /\ pc \in {"idle", "done", "rin_check", "rin_request", "gt_check",
               "gt_request", "gt_store", "do_loop", "do_sleep"}
    /\ resp \in 0 .. Len(outcomes)
    /\ closed \subseteq 1 .. Len(outcomes)

----------------------------------------------------------------------------
(* The pure functions of the instance client, applied to every pair of     *)
(* arguments of the domains above                                          *)

InitInstance ==
    /\ InitCore({DefaultHTTPClientConfig}, {NoHeaders})
    /\ inst \in {NoInstance} \cup { <<i>> : i \in Instances }
    /\ params \in InstanceParameters
    /\ utd = << >>
    /\ liHist = << >>
    /\ observation = << >>
    /\ ClsIdle
    /\ RecIdle
    /\ FacIdle
    /\ KeyIdle
    /\ LockIdle
    /\ ConIdle
    /\ RemIdle

\* UpToDate(inst, params) is called
CallUpToDate ==
    /\ utd' = << [res |-> UpToDate(inst, params), params |-> params] >>
    /\ UNCHANGED << inst, params, liHist, observation >>
    /\ UNCHANGED exceptPure

\* LateInitialize(inst, params) is called; it writes through the pointer
CallLateInitialize ==
    /\ Len(liHist) < LateInitCalls
    /\ LET r == LateInitialize(inst, params) IN
        /\ params' = r.params
        /\ liHist' = Append(liHist, [before |-> params, after |-> r.params,
                                     changed |-> r.changed])
    /\ UNCHANGED << inst, utd, observation >>
    /\ UNCHANGED exceptPure

NextInstance ==
    \/ CallUpToDate
    \/ CallLateInitialize

SpecInstance == InitInstance /\ [][NextInstance]_vars

----------------------------------------------------------------------------
(* ClassifyError, applied to every status and message of the domains above *)

InitClassify ==
    /\ InitCore({DefaultHTTPClientConfig}, {NoHeaders})
    /\ PureIdle
    /\ errStatus \in ClassifyStatuses
    /\ errMessage \in ClassifyMessages
    /\ classified = << >>
    /\ errArg \in ErrorsOf(errStatus, errMessage)
    /\ predicates = << >>
    /\ RecIdle
    /\ FacIdle
    /\ KeyIdle
    /\ LockIdle
    /\ ConIdle
    /\ RemIdle

\* ClassifyError(errStatus, errMessage) is called
CallClassifyError ==
    /\ classified = << >>
    /\ classified' = << ClassifyError(errStatus, errMessage) >>
    /\ UNCHANGED << errStatus, errMessage, errArg, predicates >>
    /\ UNCHANGED exceptCls

\* the five predicates are applied to errArg
CallPredicates ==
    /\ predicates = << >>
    /\ predicates' = << [ IsNotFound |-> IsNotFound(errArg),
                          IsUnauthorized |-> IsUnauthorized(errArg),
                          IsForbidden |-> IsForbidden(errArg),
                          IsConflict |-> IsConflict(errArg),
                          IsRateLimit |-> IsRateLimit(errArg) ] >>
    /\ UNCHANGED << errStatus, errMessage, classified, errArg >>
    /\ UNCHANGED exceptCls

NextClassify ==
    \/ CallClassifyError
    \/ CallPredicates

SpecClassify == InitClassify /\ [][NextClassify]_vars

----------------------------------------------------------------------------
(* The reconciler's external client on one managed resource: the runtime   *)
(* calls Observe, Create, Update and Delete, one at a time                 *)

InitReconcile ==
    /\ InitCore({DefaultHTTPClientConfig}, {NoHeaders})
    /\ PureIdle
    /\ ClsIdle
    /\ externalName = ""
    /\ forProvider \in DesiredParameters
    /\ atProvider = ZeroObservation
    /\ rop = "none"
    /\ rpc = "idle"
    /\ pre = [externalName |-> externalName, forProvider |-> forProvider,
              atProvider |-> atProvider]
    /\ calls = << >>
    /\ fetched = << >>
    /\ result = NoResult
    /\ rerr = NilError
    /\ FacIdle
    /\ KeyIdle
    /\ LockIdle
    /\ ConIdle
    /\ RemIdle

\* The managed reconciler calls a method of the external client; a panic of
\* the previous call was recovered by the controller runtime
RCall ==
    /\ rpc \in {"idle", "done", "panicked"}
    /\ \E m \in Methods : rop' = m
    /\ rpc' = "start"
    /\ pre' = [externalName |-> externalName, forProvider |-> forProvider,
               atProvider |-> atProvider]
    /\ calls' = << >>
    /\ fetched' = << >>
    /\ result' = NoResult
    /\ rerr' = NilError
    /\ UNCHANGED << externalName, forProvider, atProvider >>
    /\ UNCHANGED exceptRec

\* external.Observe
Observe ==
    /\ rop = "Observe" /\ rpc = "start"
    /\ IF ~NameSet(externalName)
       THEN /\ result' = [NoResult EXCEPT !.ResourceExists = FALSE]
            /\ rerr' = NilError
            /\ rpc' = "done"
            /\ UNCHANGED << atProvider, calls, fetched >>
       ELSE \/ \E err \in ClientErrors :
                 /\ calls' = Append(calls, Called("Get", externalName, err))
                 /\ result' = [NoResult EXCEPT !.ResourceExists = FALSE]
                 /\ rerr' = IF IsNotFound(err) THEN NilError ELSE err
                 /\ rpc' = "done"
                 /\ UNCHANGED << atProvider, fetched >>
            \/ \E i \in RemoteInstances :
                 /\ calls' = << Called("Get", externalName, NilError),
                                Called("GetObservation", externalName, NilError),
                                Called("UpToDate", externalName, NilError) >>
                 /\ fetched' = <<i>>
                 /\ atProvider' = GetObservation(<<i>>)
                 /\ LET upToDate == UpToDate(<<i>>, forProvider) IN
                      IF upToDate = "panic"
                      THEN /\ rpc' = "panicked"
                           /\ UNCHANGED << result, rerr >>
                      ELSE /\ result' = [NoResult EXCEPT !.ResourceExists = TRUE,
                                                         !.ResourceUpToDate = (upToDate = "true")]
                           /\ rerr' = NilError
                           /\ rpc' = "done"
    /\ UNCHANGED << externalName, forProvider, rop, pre >>
    /\ UNCHANGED exceptRec

\* external.Create, e.client.Create
CreateCall ==
    /\ rop = "Create" /\ rpc = "start"
    /\ \/ \E err \in ClientErrors :
            /\ calls' = Append(calls, Called("Create", externalName, err))
            /\ rerr' = err
            /\ rpc' = "done"
            /\ UNCHANGED fetched
       \/ \E i \in RemoteInstances :
            /\ calls' = Append(calls, Called("Create", externalName, NilError))
            /\ fetched' = <<i>>
            /\ rpc' = "setname"
            /\ UNCHANGED rerr
    /\ UNCHANGED << externalName, forProvider, atProvider, rop, pre, result >>
    /\ UNCHANGED exceptRec

\* external.Create, meta.SetExternalName
CreateSetName ==
    /\ rop = "Create" /\ rpc = "setname"
    /\ externalName' = SetExternalName(externalName, fetched[1].ID)
    /\ rpc' = "lateinit"
    /\ UNCHANGED << forProvider, atProvider, rop, pre, calls, fetched, result, rerr >>
    /\ UNCHANGED exceptRec

\* external.Create, e.client.LateInitialize and the return
CreateLateInit ==
    /\ rop = "Create" /\ rpc = "lateinit"
    /\ calls' = Append(calls, Called("LateInitialize", externalName, NilError))
    /\ forProvider' = LateInitialize(fetched, forProvider).params
    /\ result' = [NoResult EXCEPT !.ExternalNameAssigned = TRUE]
    /\ rerr' = NilError
    /\ rpc' = "done"
    /\ UNCHANGED << externalName, atProvider, rop, pre, fetched >>
    /\ UNCHANGED exceptRec

\* external.Update
Update ==
    /\ rop = "Update" /\ rpc = "start"
    /\ IF ~NameSet(externalName)
       THEN /\ rerr' = ErrNoExternalName
            /\ UNCHANGED calls
       ELSE \E err \in ClientErrors \cup {NilError} :
            /\ calls' = Append(calls, Called("Update", externalName, err))
            /\ rerr' = err
    /\ result' = NoResult
    /\ rpc' = "done"
    /\ UNCHANGED << externalName, forProvider, atProvider, rop, pre, fetched >>
    /\ UNCHANGED exceptRec

\* external.Delete
Delete ==
    /\ rop = "Delete" /\ rpc = "start"
    /\ IF ~NameSet(externalName)
       THEN /\ rerr' = ErrNoExternalName
            /\ UNCHANGED calls
       ELSE \E err \in ClientErrors \cup {NilError} :
            /\ calls' = Append(calls, Called("Delete", externalName, err))
            /\ rerr' = err
    /\ rpc' = "done"
    /\ UNCHANGED << externalName, forProvider, atProvider, rop, pre, fetched, result >>
    /\ UNCHANGED exceptRec

NextReconcile ==
    \/ RCall
    \/ Observe
    \/ CreateCall
    \/ CreateSetName
    \/ CreateLateInit
    \/ Update
    \/ Delete

SpecReconcile == InitReconcile /\ [][NextReconcile]_vars

----------------------------------------------------------------------------
(* The credential resolver, applied to every ProviderConfig and cluster of *)
(* the domains above                                                       *)

InitResolver ==
    /\ InitCore({DefaultHTTPClientConfig}, {NoHeaders})
    /\ PureIdle
    /\ ClsIdle
    /\ RecIdle
    /\ providerConfig \in ProviderConfigs
    /\ secrets \in Clusters
    /\ facRet = << >>
    /\ secretRet = << >>
    /\ KeyIdle
    /\ LockIdle
    /\ ConIdle
    /\ RemIdle

\* CreateAuthenticator(ctx, k8sClient, config) is called
CallCreateAuthenticator ==
    /\ facRet = << >>
    /\ LET r == CreateAuthenticator(secrets, providerConfig) IN
        /\ facRet' = << r >>
    /\ UNCHANGED << providerConfig, secrets, secretRet >>
    /\ UNCHANGED exceptFac

\* getSecretValue is called with a reference or with nil
CallGetSecretValue ==
    /\ secretRet = << >>
    /\ \E secretRef \in {<< >>} \cup { <<r>> : r \in SecretRefs } :
        LET r == getSecretValue(secrets, secretRef) IN
        secretRet' = << [ref |-> secretRef, value |-> r.value, err |-> r.err,
                         gets |-> r.gets] >>
    /\ UNCHANGED << providerConfig, secrets, facRet >>
    /\ UNCHANGED exceptFac

NextResolver ==
    \/ CallCreateAuthenticator
    \/ CallGetSecretValue

SpecResolver == InitResolver /\ [][NextResolver]_vars

----------------------------------------------------------------------------
(* Properties of HostingerClient.Do *)

\* a Do call has returned
DoReturned == op = "Do" /\ pc = "done"

\* PrepareRequest failed in the current Do
PrepareFailed == retErr # NilErr /\ Head(retErr) \in {ErrRefresh, ErrHeader}

\* the outcome is a response with status 429 or at least 500
RetryableStatus(o) == o # TransportErr /\ (o = 429 \/ o >= 500)

\* the outcome is a response with any other status
FinalStatus(o) == o # TransportErr /\ o # 429 /\ o < 500

\* C1: when Do has returned after a prepared request, MaxRetries >= 0 and
\* every attempt was answered with 429 or a status >= 500, then Do made
\* exactly MaxRetries+1 attempts and returns the response of the last one
\* with a nil error.
C1_RetryExhaustion ==
    ( /\ DoReturned
      /\ ~PrepareFailed
      /\ config.MaxRetries >= 0
      /\ \A i \in 1 .. Len(outcomes) : RetryableStatus(outcomes[i]) )
    => /\ Len(outcomes) = config.MaxRetries + 1
       /\ resp = Len(outcomes)
       /\ retErr = NilErr

C1_Witness ==
    /\ DoReturned
    /\ config.MaxRetries = 2
    /\ outcomes = <<500, 429, 500>>
    /\ resp = 3

\* C2: as soon as the first attempt of a Do is answered with a status other
\* than 429 and below 500, Do has returned that response with a nil error
\* after one attempt, without closing its body and without sleeping.
C2_NoRetryOnFinalStatus ==
    ( /\ op = "Do"
      /\ Len(outcomes) >= 1
      /\ FinalStatus(outcomes[1]) )
    => /\ pc = "done"
       /\ Len(outcomes) = 1
       /\ resp = 1
       /\ retErr = NilErr
       /\ waits = << >>
       /\ closed = {}

C2_Witness ==
    /\ DoReturned
    /\ config.MaxRetries = 2
    /\ outcomes = <<404>>
    /\ resp = 1

\* C3: when Do has returned and every one of its attempts (at least one)
\* failed in the transport, it made exactly MaxRetries+1 attempts and returns
\* no response and the "failed after N retries" error wrapping the cause;
\* and whenever a failed attempt is followed by an attempt answered with a
\* status other than 429 and below 500, Do has returned that response with
\* a nil error.
C3_TransportErrors ==
    /\ ( /\ DoReturned
         /\ Len(outcomes) >= 1
         /\ \A i \in 1 .. Len(outcomes) : outcomes[i] = TransportErr )
       => /\ Len(outcomes) = config.MaxRetries + 1
          /\ resp = NoResp
          /\ Len(retErr) = 2
          /\ Head(retErr) = ErrRetries
    /\ \A i \in 1 .. Len(outcomes) - 1 :
         ( op = "Do" /\ outcomes[i] = TransportErr /\ FinalStatus(outcomes[i + 1]) )
         => /\ pc = "done"
            /\ Len(outcomes) = i + 1
            /\ resp = i + 1
            /\ retErr = NilErr

C3_Witness ==
    /\ DoReturned
    /\ config.MaxRetries = 2
    /\ outcomes = <<TransportErr, TransportErr, TransportErr>>
    /\ resp = NoResp
    /\ retErr # NilErr

C3_WitnessRecovered ==
    /\ DoReturned
    /\ outcomes = <<TransportErr, 200>>
    /\ resp = 2

\* C4 (as claimed): when Do has returned the response of its last attempt
\* after exhausting the retries on a retryable status, Do has not closed the
\* body of that response; the closed bodies are those of the earlier attempts
\* that were answered.
C4_LastResponseUnclosed ==
    ( /\ DoReturned
      /\ resp # NoResp
      /\ RetryableStatus(outcomes[resp]) )
    => /\ resp \notin closed
       /\ closed = {i \in 1 .. Len(outcomes) - 1 : outcomes[i] # TransportErr}

\* C5 (as claimed): once the context of a running Do is cancelled, Do starts
\* no further HTTP attempt and does not sleep.
C5_CancellationStopsRetries ==
    [][ (op = "Do" /\ ctxDone /\ pc \in {"do_loop", "do_sleep"})
        => (outcomes' = outcomes /\ waits' = waits) ]_vars

\* C6: when a token request made by PrepareRequest inside Do has failed, Do
\* has returned no response and the error wrapped with the stage prefix, and
\* has made no HTTP call to the resource API; and a Do that returned such an
\* error made no HTTP call.
C6_PrepareFailure ==
    /\ ( op = "Do" /\ tokenOutcome \notin {"none", "ok"} )
       => /\ pc = "done"
          /\ resp = NoResp
          /\ outcomes = << >>
          /\ waits = << >>
          /\ Len(retErr) = 2
          /\ Head(retErr) \in {ErrRefresh, ErrHeader}
    /\ ( op = "Do" /\ PrepareFailed )
       => ( pc = "done" /\ resp = NoResp /\ outcomes = << >> )

C6_Witness ==
    /\ DoReturned
    /\ tokenOutcome = "non200"
    /\ Head(retErr) = ErrHeader
    /\ outcomes = << >>

C6_WitnessRefresh ==
    /\ DoReturned
    /\ tokenOutcome = "neterr"
    /\ Head(retErr) = ErrRefresh

----------------------------------------------------------------------------
(* Properties of V2OAuthAuth *)

\* a direct call of the authenticator has returned
Returned(o) == op = o /\ pc = "done"

C7_WitnessCached ==
    /\ Returned("GetToken")
    /\ snap.tok = 1
    /\ snap.now > 0
    /\ snap.now < snap.exp
    /\ callTokenReqs = 0
    /\ retToken = 1
    /\ tokenRequests = 1

\* the stored expiry is the issue instant plus expires_in minus 300 seconds
StoredExpiryHasBuffer ==
    cachedToken # NoToken => cachedExpiresAt = cacheSrc.at + cacheSrc.ttl - 300

C9_RefreshWarmsCache ==
    ( Returned("RefreshIfNeeded") /\ callTokenReqs = 1 /\ retErr = NilErr )
    => /\ cachedToken = tokenRequests
       /\ cachedExpiresAt = cacheSrc.at + cacheSrc.ttl - 300
       /\ cacheSrc.at >= snap.now

\* C10 (as claimed): for the cache and the clock of every reachable state,
\* RefreshIfNeeded would make a token request exactly when getToken would.
C10_SameMargin ==
    NeedsRefresh(cachedToken, cachedExpiresAt, now)
        <=> ~CacheValid(cachedToken, cachedExpiresAt, now)

\* C11: as soon as a token request of GetToken, GetAuthHeader or
\* RefreshIfNeeded has met a network failure, a non-200 status or an
\* undecodable body, the call has returned an error after that one request,
\* with no token and an empty header; for a non-200 status the message names
\* the status the endpoint answered.
C11_TokenFetchFailure ==
    ( /\ op \in {"GetToken", "GetAuthHeader", "RefreshIfNeeded"}
      /\ tokenOutcome \in {"neterr", "non200", "badjson"} )
    => /\ pc = "done"
       /\ callTokenReqs = 1
       /\ Len(retErr) = 1
       /\ retToken = NoToken
       /\ retHeader = << >>
       /\ (tokenOutcome = "non200" /\ tokenStatus = 401)
            => retErr[1] = "token request failed with status 401"
       /\ (tokenOutcome = "non200" /\ tokenStatus = 500)
            => retErr[1] = "token request failed with status 500"
       /\ tokenOutcome = "non200" => tokenStatus \in {401, 500}

C11_Witness ==
    /\ Returned("GetAuthHeader")
    /\ tokenOutcome = "non200"
    /\ tokenStatus = 500
    /\ callTokenReqs = 1
    /\ retErr = <<"token request failed with status 500">>
    /\ retHeader = << >>

----------------------------------------------------------------------------
(* Properties of the reconciler's external client *)

\* an external method has returned
RReturned(m) == rop = m /\ rpc = "done"

\* the method's first call to the resource client failed
FetchFailed == Len(calls) = 1 /\ calls[1].err # NilError

\* C12: Observe with no recorded external identity reports the resource as not
\* existing, with a nil error and without calling the resource client; with an
\* identity it fetches by that identity, and when the fetch fails with an error
\* classified NotFound (a HostingerError of kind NotFound or of status 404) it
\* reports "does not exist" with a nil error, while any other fetch failure is
\* returned as the error, the observation record left as it was.
C12_ObserveRecoversNotFound ==
    RReturned("Observe") =>
        /\ pre.externalName = "" =>
             /\ calls = << >>
             /\ ~result.ResourceExists
             /\ rerr = NilError
             /\ atProvider = pre.atProvider
        /\ pre.externalName # "" =>
             /\ calls # << >>
             /\ calls[1].m = "Get" /\ calls[1].id = pre.externalName
        /\ (pre.externalName # "" /\ FetchFailed) =>
             LET e == calls[1].err IN
             IF e.kind = "HostingerError" /\ (e.Type = "NotFound" \/ e.Status = 404)
             THEN ~result.ResourceExists /\ rerr = NilError
             ELSE /\ rerr = e
                  /\ atProvider = pre.atProvider
                  /\ result = NoResult

\* a fetch that failed with 404 was recovered
C12_Witness ==
    /\ RReturned("Observe") /\ pre.externalName = "vps-1" /\ FetchFailed
    /\ calls[1].err = ClassifyError(StatusNotFound, "gone")
    /\ ~result.ResourceExists /\ rerr = NilError

\* a fetch that failed with 500 was surfaced
C12_WitnessSurfaced ==
    /\ RReturned("Observe") /\ pre.externalName = "vps-1" /\ FetchFailed
    /\ calls[1].err = ClassifyError(StatusInternalServerError, "boom")
    /\ rerr = calls[1].err
    /\ atProvider = pre.atProvider /\ atProvider # ZeroObservation

\* no identity recorded: nothing was fetched
C12_WitnessUnnamed ==
    /\ RReturned("Observe") /\ pre.externalName = "" /\ calls = << >>
    /\ ~result.ResourceExists /\ rerr = NilError

\* C13: when the resource client's Create succeeds, the returned ID is the
\* external identity by the time LateInitialize runs, and the returned result
\* reports the identity as assigned; when Create fails, the error is returned,
\* the external identity and the desired parameters are as they were, and
\* LateInitialize has not run.
C13_CreateRecordsIdentityFirst ==
    /\ (rop = "Create" /\ rpc = "lateinit") => externalName = fetched[1].ID
    /\ rop = "Create" =>
         \A k \in 1 .. Len(calls) :
             calls[k].m = "LateInitialize" =>
                 /\ k = 2
                 /\ calls[1].m = "Create" /\ calls[1].err = NilError
                 /\ calls[k].id = fetched[1].ID
    /\ RReturned("Create") =>
         /\ calls # << >> /\ calls[1].m = "Create"
         /\ IF calls[1].err = NilError
            THEN /\ externalName = fetched[1].ID
                 /\ result.ExternalNameAssigned
                 /\ rerr = NilError
                 /\ Len(calls) = 2 /\ calls[2].m = "LateInitialize"
            ELSE /\ rerr = calls[1].err
                 /\ externalName = pre.externalName
                 /\ forProvider = pre.forProvider
                 /\ Len(calls) = 1
                 /\ ~result.ExternalNameAssigned

\* a successful Create replaced an older identity and backfilled a parameter
C13_Witness ==
    /\ RReturned("Create")
    /\ pre.externalName = "vps-1" /\ externalName = "vps-2"
    /\ fetched # << >> /\ fetched[1].ID = "vps-2"
    /\ calls[2].m = "LateInitialize" /\ calls[2].id = "vps-2"
    /\ result.ExternalNameAssigned
    /\ forProvider # pre.forProvider

\* a failed Create left the resource as it was
C13_WitnessFailed ==
    /\ RReturned("Create") /\ rerr = ClassifyError(StatusInternalServerError, "boom")
    /\ externalName = pre.externalName /\ forProvider = pre.forProvider
    /\ Len(calls) = 1

\* C14: Delete called when no external identity is recorded returns a nil
\* error and makes no call to the resource client.
C14_DeleteWithoutIdentitySucceeds ==
    (RReturned("Delete") /\ pre.externalName = "") =>
        /\ rerr = NilError
        /\ calls = << >>

\* C15: Update called when no external identity is recorded returns an error
\* and makes no call to the resource client; with an identity recorded it
\* makes one call, Update with exactly that identity, and returns exactly what
\* that call returned; it changes nothing of the managed resource.
C15_UpdateRequiresIdentity ==
    RReturned("Update") =>
        /\ pre.externalName = "" =>
             /\ rerr # NilError
             /\ rerr = ErrNoExternalName
             /\ calls = << >>
        /\ pre.externalName # "" =>
             /\ Len(calls) = 1
             /\ calls[1].m = "Update" /\ calls[1].id = pre.externalName
             /\ rerr = calls[1].err
        /\ externalName = pre.externalName
        /\ forProvider = pre.forProvider
        /\ atProvider = pre.atProvider

\* an Update without identity failed without a call
C15_Witness ==
    /\ RReturned("Update") /\ pre.externalName = ""
    /\ rerr = PlainError("external name not set") /\ calls = << >>

\* an Update with identity passed the client's error on
C15_WitnessPropagated ==
    /\ RReturned("Update") /\ pre.externalName = "vps-2"
    /\ calls = << Called("Update", "vps-2", ClassifyError(StatusUnauthorized, "boom")) >>
    /\ rerr = ClassifyError(StatusUnauthorized, "boom")

\* an Update with identity succeeded
C15_WitnessUpdated ==
    /\ RReturned("Update") /\ pre.externalName = "vps-1"
    /\ calls = << Called("Update", "vps-1", NilError) >>
    /\ rerr = NilError

\* Observe returned after a successful fetch: the observation record is
\* GetObservation of the fetched instance, the result says the resource exists
\* and says up-to-date exactly when UpToDate is true, the error is nil, and
\* the desired parameters and the external identity are as they were.
ObserveSuccessReturned ==
    (RReturned("Observe") /\ fetched # << >>) =>
        /\ calls[1] = Called("Get", pre.externalName, NilError)
        /\ atProvider = GetObservation(fetched)
        /\ atProvider.ID = fetched[1].ID
        /\ atProvider.Status = fetched[1].Status
        /\ atProvider.IPAddress = fetched[1].IPAddress
        /\ atProvider.IPv6Address = fetched[1].IPv6Address
        /\ atProvider.CurrentHostname = fetched[1].Hostname
        /\ atProvider.CurrentCPUCount = fetched[1].CPUCount
        /\ atProvider.CurrentRAM = fetched[1].RAM
        /\ atProvider.CurrentDiskSize = fetched[1].DiskSize
        /\ result.ResourceExists
        /\ result.ResourceUpToDate <=> (UpToDate(fetched, pre.forProvider) = "true")
        /\ rerr = NilError
        /\ forProvider = pre.forProvider
        /\ externalName = pre.externalName

\* C16: on a successful fetch Observe replaces the observation record with
\* GetObservation(fetched instance), reports the resource as existing, and
\* reports up-to-date exactly when UpToDate(fetched instance, desired
\* parameters) holds, without changing the desired parameters or the external
\* identity: every Observe whose fetch succeeded returns, and returns that.
C16_ObserveSuccess ==
    (rop = "Observe" /\ fetched # << >>) =>
        /\ rpc = "done"
        /\ atProvider = GetObservation(fetched)
        /\ result.ResourceExists
        /\ result.ResourceUpToDate <=> (UpToDate(fetched, pre.forProvider) = "true")
        /\ rerr = NilError
        /\ forProvider = pre.forProvider
        /\ externalName = pre.externalName

\* an Observe whose fetch succeeded did not return: UpToDate dereferenced the
\* nil Bandwidth of the fetched instance
ObservePanicked ==
    /\ rop = "Observe" /\ rpc = "panicked" /\ fetched # << >>
    /\ pre.forProvider.Bandwidth # << >> /\ fetched[1].Bandwidth = << >>
    /\ result = NoResult

\* an Observe replaced an older observation record and found the resource in sync
ObserveInSync ==
    /\ RReturned("Observe") /\ fetched # << >>
    /\ pre.atProvider # ZeroObservation /\ atProvider # pre.atProvider
    /\ result.ResourceExists /\ result.ResourceUpToDate
    /\ UpToDate(fetched, forProvider) = "true"

\* an Observe found the resource out of sync
ObserveOutOfSync ==
    /\ RReturned("Observe") /\ fetched # << >>
    /\ result.ResourceExists /\ ~result.ResourceUpToDate
    /\ UpToDate(fetched, forProvider) = "false"

----------------------------------------------------------------------------
(* Properties of the instance client's pure functions *)

\* the fields params sets (non-zero, non-nil) all equal the instance's
SetFieldsEqual(i, p) ==
    /\ p.Hostname # "" => p.Hostname = i.Hostname
    /\ p.OSId # "" => p.OSId = i.OSId
    /\ p.CPUCount # 0 => p.CPUCount = i.CPUCount
    /\ p.RAM # 0 => p.RAM = i.RAM
    /\ p.DiskSize # 0 => p.DiskSize = i.DiskSize
    /\ p.Bandwidth # << >> => p.Bandwidth = i.Bandwidth
    /\ p.IPv6Enabled # << >> => p.IPv6Enabled = <<i.IPv6Enabled>>
    /\ p.Inodes # << >> => p.Inodes = i.Inodes

\* C17: for a non-nil remote instance and params that differ from it only in
\* fields params leaves nil or zero, UpToDate returns true; for a nil remote
\* instance it returns false.
C17_UpToDateIgnoresUnset ==
    utd # << >> =>
        /\ (inst # NoInstance /\ SetFieldsEqual(inst[1], utd[1].params)) => utd[1].res = "true"
        /\ inst = NoInstance => utd[1].res = "false"

\* UpToDate returned true for params that leave fields unset which the
\* instance has, next to set fields that agree
C17_Witness ==
    /\ utd # << >> /\ inst # NoInstance /\ utd[1].res = "true"
    /\ utd[1].params.Hostname = "web" /\ utd[1].params.CPUCount = 0
    /\ utd[1].params.RAM = 0 /\ utd[1].params.Bandwidth = << >>
    /\ inst[1].Bandwidth = <<100>>
    /\ utd[1].params.OSId = "" /\ inst[1].OSId = "debian"

\* UpToDate returned false for a nil instance
C17_WitnessNil == utd # << >> /\ inst = NoInstance /\ utd[1].res = "false"

\* C18: if any set field of params (hostname, OS id, CPU count, RAM, disk
\* size, bandwidth, IPv6 flag or inodes) differs from the remote instance's
\* field, UpToDate returns false.
C18_UpToDateComparesEverySetField ==
    (utd # << >> /\ inst # NoInstance /\ ~SetFieldsEqual(inst[1], utd[1].params))
        => utd[1].res = "false"

\* UpToDate returned true although the OS id that params sets differs
UpToDateMissesOSId ==
    /\ utd # << >> /\ inst # NoInstance /\ utd[1].res = "true"
    /\ utd[1].params.OSId = "ubuntu" /\ inst[1].OSId = "debian"

\* UpToDate returned true although the inodes that params sets differ
UpToDateMissesInodes ==
    /\ utd # << >> /\ inst # NoInstance /\ utd[1].res = "true"
    /\ utd[1].params.Inodes = <<2000>> /\ inst[1].Inodes = <<1000>>
    /\ utd[1].params.OSId = inst[1].OSId

\* C19: every LateInitialize call returns true exactly when it changed params;
\* it changes no field of params that was set and none of hostname, CPU count,
\* RAM and disk size, and what it writes is the remote instance's value; a
\* second call on the same instance and params returns false and changes
\* nothing; with a nil instance it returns false and changes nothing.
C19_LateInitializeIdempotent ==
    \A k \in 1 .. Len(liHist) :
        LET b == liHist[k].before
            a == liHist[k].after
        IN /\ liHist[k].changed <=> (a # b)
           /\ a.Hostname = b.Hostname /\ a.CPUCount = b.CPUCount
           /\ a.RAM = b.RAM /\ a.DiskSize = b.DiskSize
           /\ b.OSId # "" => a.OSId = b.OSId
           /\ b.Bandwidth # << >> => a.Bandwidth = b.Bandwidth
           /\ b.IPv6Enabled # << >> => a.IPv6Enabled = b.IPv6Enabled
           /\ b.Inodes # << >> => a.Inodes = b.Inodes
           /\ (inst # NoInstance /\ a.OSId # b.OSId) => a.OSId = inst[1].OSId
           /\ (inst # NoInstance /\ a.Bandwidth # b.Bandwidth) => a.Bandwidth = inst[1].Bandwidth
           /\ (inst # NoInstance /\ a.IPv6Enabled # b.IPv6Enabled) => a.IPv6Enabled = <<inst[1].IPv6Enabled>>
           /\ (inst # NoInstance /\ a.Inodes # b.Inodes) => a.Inodes = inst[1].Inodes
           /\ k > 1 => (~liHist[k].changed /\ a = b /\ b = liHist[k - 1].after)
           /\ inst = NoInstance => (~liHist[k].changed /\ a = b)
           /\ k = Len(liHist) => params = a

\* a first call filled the OS id and the IPv6 flag and kept the bandwidth the
\* caller had set to another value; the second call changed nothing
C19_Witness ==
    /\ Len(liHist) = 2
    /\ liHist[1].changed /\ ~liHist[2].changed
    /\ liHist[1].before.OSId = "" /\ liHist[1].after.OSId = "debian"
    /\ liHist[1].before.IPv6Enabled = << >> /\ liHist[1].after.IPv6Enabled = <<TRUE>>
    /\ liHist[1].before.Bandwidth = <<200>> /\ inst[1].Bandwidth = <<100>>
    /\ params.Bandwidth = <<200>>
    /\ liHist[2].after = liHist[1].after

\* a call with a nil instance
C19_WitnessNil ==
    /\ inst = NoInstance /\ Len(liHist) = 1 /\ ~liHist[1].changed
    /\ params = liHist[1].before

----------------------------------------------------------------------------
(* Properties of the error classifier *)

\* C20: ClassifyError returns a HostingerError for every status and message;
\* its kind is NotFound for 404, Unauthorized for 401, Forbidden for 403,
\* Conflict for 409, RateLimit for 429, Internal for 500, 502, 503 and 504,
\* and Unknown for every other status; its Status is the input status and its
\* Message the input message.
C20_ClassifyErrorTable ==
    /\ classified = << >> => ENABLED CallClassifyError
    /\ classified # << >> =>
         LET r == classified[1] IN
         /\ r.kind = "HostingerError"
         /\ r.Type \in ErrorTypes
         /\ r.Status = errStatus
         /\ r.Message = errMessage
         /\ errStatus = 404 => r.Type = "NotFound"
         /\ errStatus = 401 => r.Type = "Unauthorized"
         /\ errStatus = 403 => r.Type = "Forbidden"
         /\ errStatus = 409 => r.Type = "Conflict"
         /\ errStatus = 429 => r.Type = "RateLimit"
         /\ errStatus \in {500, 502, 503, 504} => r.Type = "Internal"
         /\ errStatus \notin {404, 401, 403, 409, 429, 500, 502, 503, 504}
              => r.Type = "Unknown"

\* a gateway timeout was classified Internal
C20_Witness ==
    /\ errStatus = 504 /\ errMessage = "boom"
    /\ classified = << HostingerError("Internal", "boom", 504) >>

\* an unmapped status was classified Unknown and kept
C20_WitnessUnknown ==
    /\ errStatus = 418 /\ errMessage = ""
    /\ classified # << >> /\ classified[1].Type = "Unknown" /\ classified[1].Status = 418

\* C21: for every HostingerError, IsNotFound is true exactly when its kind is
\* NotFound or its Status is 404, IsUnauthorized exactly for Unauthorized or
\* 401, IsForbidden exactly for Forbidden or 403, IsConflict exactly for
\* Conflict or 409, IsRateLimit exactly for RateLimit or 429; on a nil error
\* all five are false.
C21_PredicatesByKindOrStatus ==
    predicates # << >> =>
        LET r == predicates[1] IN
        /\ errArg.kind = "HostingerError" =>
             /\ r.IsNotFound <=> (errArg.Type = "NotFound" \/ errArg.Status = 404)
             /\ r.IsUnauthorized <=> (errArg.Type = "Unauthorized" \/ errArg.Status = 401)
             /\ r.IsForbidden <=> (errArg.Type = "Forbidden" \/ errArg.Status = 403)
             /\ r.IsConflict <=> (errArg.Type = "Conflict" \/ errArg.Status = 409)
             /\ r.IsRateLimit <=> (errArg.Type = "RateLimit" \/ errArg.Status = 429)
        /\ errArg.kind = "nil" =>
             ~(r.IsNotFound \/ r.IsUnauthorized \/ r.IsForbidden \/ r.IsConflict \/ r.IsRateLimit)

\* a HostingerError of kind Unknown with status 429 is a rate-limit error and
\* nothing else
C21_Witness ==
    /\ predicates # << >>
    /\ errArg = HostingerError("Unknown", "boom", 429)
    /\ predicates[1].IsRateLimit /\ ~predicates[1].IsNotFound /\ ~predicates[1].IsConflict

\* a HostingerError of kind NotFound with status 403 is both NotFound and Forbidden
C21_WitnessBoth ==
    /\ predicates # << >>
    /\ errArg = HostingerError("NotFound", "gone", 403)
    /\ predicates[1].IsNotFound /\ predicates[1].IsForbidden /\ ~predicates[1].IsUnauthorized

\* the predicates were applied to a nil error
C21_WitnessNil ==
    /\ predicates # << >> /\ errArg = NilError /\ ~predicates[1].IsNotFound

----------------------------------------------------------------------------
(* Properties of the credential resolver *)

\* the cluster has the Secret the reference names, and the Secret has the key
Resolvable(ref) ==
    /\ secrets[ref.Name] # << >>
    /\ secrets[ref.Name][1][ref.Key] # << >>

\* the value stored under the reference
ValueOf(ref) == secrets[ref.Name][1][ref.Key][1]

\* only the key-pair block, only the OAuth block, neither block is present
OnlyKeyPair == providerConfig.APIKeyAuth # << >> /\ providerConfig.OAuthAuth = << >>
OnlyOAuth == providerConfig.APIKeyAuth = << >> /\ providerConfig.OAuthAuth # << >>
NoCredentials == providerConfig.APIKeyAuth = << >> /\ providerConfig.OAuthAuth = << >>

\* CreateAuthenticator never returns both an authenticator and an error, a
\* key-pair block alone never yields an OAuth authenticator and the reverse,
\* and with neither block it returns no authenticator and an error
CreateAuthenticatorDispatch ==
    facRet # << >> =>
        LET r == facRet[1] IN
        /\ (r.authn = << >>) <=> (r.err # NilError)
        /\ (OnlyKeyPair /\ r.authn # << >>) => r.authn[1].Type = "APIKeyAuth"
        /\ (OnlyOAuth /\ r.authn # << >>) => r.authn[1].Type = "OAuthAuth"
        /\ NoCredentials => (r.authn = << >> /\ r.err # NilError /\ r.gets = << >>)

\* C22: CreateAuthenticator yields a static key-pair authenticator for a
\* key-pair block and an OAuth authenticator for an OAuth block, and when
\* neither block is present it returns no authenticator and an error of the
\* InvalidConfig class.
C22_CreateAuthenticatorDispatch ==
    facRet # << >> =>
        LET r == facRet[1] IN
        /\ (OnlyKeyPair /\ r.authn # << >>) => r.authn[1].Type = "APIKeyAuth"
        /\ (OnlyOAuth /\ r.authn # << >>) => r.authn[1].Type = "OAuthAuth"
        /\ NoCredentials =>
             /\ r.authn = << >>
             /\ r.err.kind = "HostingerError" /\ r.err.Type = "InvalidConfig"

\* with neither block the error is a plain one, of no class
NoAuthMethodUnclassified ==
    /\ facRet # << >> /\ NoCredentials
    /\ facRet[1].authn = << >>
    /\ facRet[1].err = PlainError("no authentication method configured in ProviderConfig")

\* a key-pair authenticator and an OAuth authenticator were built
KeyPairBuilt == facRet # << >> /\ OnlyKeyPair /\ facRet[1].authn # << >>
OAuthBuilt == facRet # << >> /\ OnlyOAuth /\ facRet[1].authn # << >>

\* the two references of the block CreateAuthenticator dispatches to, in the
\* order of their lookups
RefsInOrder ==
    IF providerConfig.APIKeyAuth # << >>
    THEN << providerConfig.APIKeyAuth[1].APIKeySecretRef,
            providerConfig.APIKeyAuth[1].CustomerIDSecretRef >>
    ELSE << providerConfig.OAuthAuth[1].ClientIDSecretRef,
            providerConfig.OAuthAuth[1].ClientSecretSecretRef >>

\* C23: the constructors look their two secret references up in order; the
\* first one whose Secret is missing or lacks the key ends the construction
\* with an error and a nil authenticator and no further lookup; when both
\* resolve, the authenticator holds exactly the two stored values, the
\* configured endpoint or else the default one, and for OAuth the configured
\* token endpoint or else the default one; getSecretValue fails without a
\* lookup on a nil reference, fails on a missing Secret or key, and otherwise
\* returns the stored value.
C23_ConstructionFailsFast ==
    /\ (facRet # << >> /\ ~NoCredentials) =>
         LET r == facRet[1]
             first == RefsInOrder[1]
             second == RefsInOrder[2]
         IN /\ ~Resolvable(first) =>
                 (r.authn = << >> /\ r.err # NilError /\ r.gets = <<first>>)
            /\ (Resolvable(first) /\ ~Resolvable(second)) =>
                 (r.authn = << >> /\ r.err # NilError /\ r.gets = <<first, second>>)
            /\ (Resolvable(first) /\ Resolvable(second)) =>
                 /\ r.err = NilError /\ r.authn # << >> /\ r.gets = <<first, second>>
                 /\ providerConfig.APIKeyAuth # << >> =>
                      LET a == providerConfig.APIKeyAuth[1] IN
                      /\ r.authn[1].Type = "APIKeyAuth"
                      /\ r.authn[1].APIKey = ValueOf(a.APIKeySecretRef)
                      /\ r.authn[1].CustomerID = ValueOf(a.CustomerIDSecretRef)
                      /\ a.Endpoint # "" => r.authn[1].Endpoint = a.Endpoint
                      /\ a.Endpoint = "" => r.authn[1].Endpoint = "https://api.hostinger.com/v1"
                 /\ providerConfig.APIKeyAuth = << >> =>
                      LET o == providerConfig.OAuthAuth[1] IN
                      /\ r.authn[1].Type = "OAuthAuth"
                      /\ r.authn[1].ClientID = ValueOf(o.ClientIDSecretRef)
                      /\ r.authn[1].ClientSecret = ValueOf(o.ClientSecretSecretRef)
                      /\ o.Endpoint # "" => r.authn[1].Endpoint = o.Endpoint
                      /\ o.Endpoint = "" => r.authn[1].Endpoint = "https://api.hostinger.com/v2"
                      /\ o.TokenEndpoint # "" => r.authn[1].TokenEndpoint = o.TokenEndpoint
                      /\ o.TokenEndpoint = "" =>
                           r.authn[1].TokenEndpoint = "https://auth.hostinger.com/oauth/token"
    /\ secretRet # << >> =>
         LET g == secretRet[1] IN
         /\ g.ref = << >> => (g.err # NilError /\ g.value = << >> /\ g.gets = << >>)
         /\ (g.ref # << >> /\ ~Resolvable(g.ref[1])) => (g.err # NilError /\ g.value = << >>)
         /\ (g.ref # << >> /\ Resolvable(g.ref[1])) =>
                (g.err = NilError /\ g.value = ValueOf(g.ref[1]))

\* the key-pair constructor stopped at its first reference: the Secret exists
\* but lacks the key, and the second reference was not looked up
C23_Witness ==
    /\ facRet # << >> /\ OnlyKeyPair
    /\ secrets["creds"] # << >> /\ secrets["creds"][1].key = << >>
    /\ providerConfig.APIKeyAuth[1].APIKeySecretRef = [Name |-> "creds", Key |-> "key"]
    /\ Resolvable(providerConfig.APIKeyAuth[1].CustomerIDSecretRef)
    /\ facRet[1].authn = << >> /\ facRet[1].err # NilError
    /\ Len(facRet[1].gets) = 1

\* the OAuth constructor stopped at its second reference, whose Secret is missing
C23_WitnessSecond ==
    /\ facRet # << >> /\ OnlyOAuth
    /\ Resolvable(providerConfig.OAuthAuth[1].ClientIDSecretRef)
    /\ secrets[providerConfig.OAuthAuth[1].ClientSecretSecretRef.Name] = << >>
    /\ facRet[1].authn = << >> /\ Len(facRet[1].gets) = 2

\* an OAuth authenticator was built with an empty stored secret and both defaults
C23_WitnessDefaults ==
    /\ OAuthBuilt
    /\ facRet[1].authn[1].ClientSecret = << >> /\ facRet[1].authn[1].ClientID = <<97>>
    /\ providerConfig.OAuthAuth[1].Endpoint = ""
    /\ facRet[1].authn[1].Endpoint = "https://api.hostinger.com/v2"
    /\ facRet[1].authn[1].TokenEndpoint = "https://auth.hostinger.com/oauth/token"

\* getSecretValue was called with a nil reference
C23_WitnessNilRef ==
    /\ secretRet # << >> /\ secretRet[1].ref = << >>
    /\ secretRet[1].err = PlainError("secret reference is nil")

----------------------------------------------------------------------------
(* SpecHeaders: the HTTP client core with requests whose headers the caller *)
(* has set, under a configured user agent of its own                        *)

\* configurations of the client in SpecHeaders: a loop that never runs, and
\* one retry
HeaderConfigs ==
    [MaxRetries : {0 - 1, 1}, RetryWaitTime : RetryWaitTimes,
     UserAgent : {"custom-agent/1.0"}]

InitHeaders ==
    /\ InitCore(HeaderConfigs, CallerHeaders)
    /\ PureIdle
    /\ ClsIdle
    /\ RecIdle
    /\ FacIdle
    /\ KeyIdle
    /\ LockIdle
    /\ ConIdle
    /\ RemIdle

SpecHeaders == InitHeaders /\ [][Next]_vars

\* PrepareRequest inside Do has returned an error
PrepareRequestFailed ==
    /\ op = "Do"
    /\ pc = "done"
    /\ retErr # NilErr
    /\ Head(retErr) \in {ErrRefresh, ErrHeader}

\* PrepareRequest inside Do has returned nil
PrepareRequestSucceeded ==
    /\ op = "Do"
    /\ pc \in {"do_loop", "do_sleep", "done"}
    /\ ~PrepareRequestFailed

\* C24: PrepareRequest calls RefreshIfNeeded first and GetAuthHeader only
\* after it; when RefreshIfNeeded fails it returns the error prefixed "failed
\* to refresh authentication" and GetAuthHeader is not called; when
\* GetAuthHeader fails it returns the error prefixed "failed to get
\* authorization header"; after either failure the request's headers are the
\* ones the caller had set and nothing was sent.
C24_PrepareRequestStaged ==
    /\ ( op = "Do" /\ authCalls # << >> )
       => /\ authCalls[1] = "RefreshIfNeeded"
          /\ Len(authCalls) <= 2
          /\ Len(authCalls) = 2 => authCalls[2] = "GetAuthHeader"
    /\ ( op = "Do" /\ tokenOutcome \notin {"none", "ok"} /\ Len(authCalls) = 1 )
       => /\ pc = "done"
          /\ Head(retErr) = ErrRefresh
    /\ ( op = "Do" /\ tokenOutcome \notin {"none", "ok"} /\ Len(authCalls) = 2 )
       => /\ pc = "done"
          /\ Head(retErr) = ErrHeader
    /\ ( PrepareRequestFailed /\ Head(retErr) = ErrRefresh )
       => authCalls = <<"RefreshIfNeeded">>
    /\ PrepareRequestFailed
       => /\ header = callerHeaders
          /\ sent = << >>

\* RefreshIfNeeded failed on a request carrying four headers of the caller
C24_Witness ==
    /\ PrepareRequestFailed
    /\ Head(retErr) = ErrRefresh
    /\ authCalls = <<"RefreshIfNeeded">>
    /\ callerHeaders.Authorization # << >>
    /\ header = callerHeaders

\* GetAuthHeader failed after RefreshIfNeeded had succeeded
C24_WitnessHeader ==
    /\ PrepareRequestFailed
    /\ Head(retErr) = ErrHeader
    /\ authCalls = <<"RefreshIfNeeded", "GetAuthHeader">>
    /\ callerHeaders.Accept # << >>
    /\ header = callerHeaders

\* C25: once PrepareRequest has succeeded inside Do, the request carries
\* Authorization with the value GetAuthHeader returned, User-Agent with the
\* configured user agent and Accept with application/json, its other header
\* is as the caller set it, and every attempt of Do has sent exactly these
\* headers.
C25_PrepareRequestSetsThreeHeaders ==
    PrepareRequestSucceeded
    => /\ retHeader # << >>
       /\ header.Authorization = << retHeader >>
       /\ header.UserAgent = << config.UserAgent >>
       /\ header.Accept = <<"application/json">>
       /\ header.ContentType = callerHeaders.ContentType
       /\ Len(sent) = Len(outcomes)
       /\ \A k \in 1 .. Len(sent) : sent[k] = header

\* two attempts were made for a request on which the caller had preset all
\* four headers, three of them to other values
C25_Witness ==
    /\ PrepareRequestSucceeded
    /\ Len(sent) = 2
    /\ callerHeaders.Accept = <<"text/plain">>
    /\ callerHeaders.ContentType # << >>
    /\ header.Authorization # callerHeaders.Authorization

\* one attempt with a request on which the caller had set no header
C25_WitnessBare ==
    /\ PrepareRequestSucceeded
    /\ Len(sent) = 1
    /\ callerHeaders = NoHeaders

----------------------------------------------------------------------------
(* SpecBackoff: the HTTP client core under configurations whose             *)
(* RetryWaitTime is the zero value of the struct or one second              *)

BackoffWaitTimes == {0, 1000}

BackoffConfigs ==
    [MaxRetries : {0 - 1, MaxRetriesBound}, RetryWaitTime : BackoffWaitTimes,
     UserAgent : UserAgents]

InitBackoff ==
    /\ InitCore(BackoffConfigs, {NoHeaders})
    /\ PureIdle
    /\ ClsIdle
    /\ RecIdle
    /\ FacIdle
    /\ KeyIdle
    /\ LockIdle
    /\ ConIdle
    /\ RemIdle

SpecBackoff == InitBackoff /\ [][Next]_vars

RECURSIVE SumOf(_)
\* the sum of a sequence of durations
SumOf(s) == IF s = << >> THEN 0 ELSE Head(s) + SumOf(Tail(s))

\* the waits of the current Do follow the linear rule: the wait after the
\* attempt with index k is RetryWaitTime*(k+1), only attempts with
\* k < MaxRetries are followed by a wait, none follows the last attempt made,
\* and the total is at most RetryWaitTime*MaxRetries*(MaxRetries+1)/2
BackoffLinear ==
    op = "Do"
    => /\ \A k \in 1 .. Len(waits) : waits[k] = config.RetryWaitTime * k
       /\ Len(waits) <= (IF config.MaxRetries < 0 THEN 0 ELSE config.MaxRetries)
       /\ Len(waits) <= Len(outcomes)
       /\ pc \in {"do_loop", "do_sleep"} => Len(waits) < Len(outcomes) + (IF pc = "do_loop" THEN 1 ELSE 0)
       /\ ( pc = "done" /\ outcomes # << >> ) => Len(waits) = Len(outcomes) - 1
       /\ config.MaxRetries >= 0
          => SumOf(waits) <= (config.RetryWaitTime * config.MaxRetries
                                * (config.MaxRetries + 1)) \div 2

\* successive waits of the current Do strictly increase
WaitsIncrease ==
    op = "Do" => \A k \in 1 .. Len(waits) - 1 : waits[k] < waits[k + 1]

C26_WitnessZero ==
    /\ DoReturned
    /\ config.RetryWaitTime = 0
    /\ Len(waits) >= 2
    /\ waits[1] = waits[2]

----------------------------------------------------------------------------
(* auth.V1KeyAuth: the static key-pair authenticator.  Strings are          *)
(* sequences of bytes; base64.StdEncoding is computed bit by bit.           *)

MaxKeyCalls == 3         \* calls made on one authenticator
MaxCredLen == 2          \* longest customer id and longest API key

Colon == 58              \* ':'
CredBytes == {Colon, 97, 255}      \* ':', 'a' and a byte outside ASCII

\* the strings of at most n bytes of CredBytes
CredStrings(n) == UNION { [1 .. l -> CredBytes] : l \in 0 .. n }

KeyEndpoints == {"https://api.hostinger.com/v1"}

B64Pad == 61             \* '='
BasicPrefix == <<66, 97, 115, 105, 99, 32>>   \* "Basic "

\* base64.StdEncoding, the character of a 6-bit value: A-Z a-z 0-9 + /
B64Char(i) ==
    IF i < 26 THEN 65 + i
    ELSE IF i < 52 THEN 97 + (i - 26)
    ELSE IF i < 62 THEN 48 + (i - 52)
    ELSE IF i = 62 THEN 43 ELSE 47

\* base64.StdEncoding, the 6-bit value of a character, or -1
B64Index(c) ==
    IF c \in 65 .. 90 THEN c - 65
    ELSE IF c \in 97 .. 122 THEN c - 97 + 26
    ELSE IF c \in 48 .. 57 THEN c - 48 + 52
    ELSE IF c = 43 THEN 62
    ELSE IF c = 47 THEN 63
    ELSE 0 - 1

RECURSIVE Base64Encode(_)
\* base64.StdEncoding.EncodeToString: three bytes to four characters, the
\* last group padded with '='
Base64Encode(b) ==
    IF Len(b) = 0 THEN << >>
    ELSE IF Len(b) = 1
    THEN LET n == b[1] * 65536
         IN  << B64Char(n \div 262144), B64Char((n \div 4096) % 64), B64Pad, B64Pad >>
    ELSE IF Len(b) = 2
    THEN LET n == b[1] * 65536 + b[2] * 256
         IN  << B64Char(n \div 262144), B64Char((n \div 4096) % 64),
                B64Char((n \div 64) % 64), B64Pad >>
    ELSE LET n == b[1] * 65536 + b[2] * 256 + b[3]
         IN  << B64Char(n \div 262144), B64Char((n \div 4096) % 64),
                B64Char((n \div 64) % 64), B64Char(n % 64) >>
             \o Base64Encode(SubSeq(b, 4, Len(b)))

RECURSIVE Base64Decode(_)
\* base64.StdEncoding.DecodeString: four characters to three bytes; padding
\* only in the last group; anything else is corrupt input
Base64Decode(s) ==
    IF Len(s) = 0 THEN [ok |-> TRUE, bytes |-> << >>]
    ELSE IF Len(s) < 4 THEN [ok |-> FALSE, bytes |-> << >>]
    ELSE LET i1 == B64Index(s[1])
             i2 == B64Index(s[2])
             i3 == B64Index(s[3])
             i4 == B64Index(s[4])
             rest == SubSeq(s, 5, Len(s))
         IN  IF i1 < 0 \/ i2 < 0 THEN [ok |-> FALSE, bytes |-> << >>]
             ELSE IF s[3] = B64Pad
             THEN [ok |-> s[4] = B64Pad /\ rest = << >>,
                   bytes |-> << (i1 * 64 + i2) \div 16 >>]
             ELSE IF i3 < 0 THEN [ok |-> FALSE, bytes |-> << >>]
             ELSE IF s[4] = B64Pad
             THEN LET n == i1 * 4096 + i2 * 64 + i3
                  IN  [ok |-> rest = << >>,
                       bytes |-> << n \div 1024, (n \div 4) % 256 >>]
             ELSE IF i4 < 0 THEN [ok |-> FALSE, bytes |-> << >>]
             ELSE LET n == i1 * 262144 + i2 * 4096 + i3 * 64 + i4
                      r == Base64Decode(rest)
                  IN  [ok |-> r.ok,
                       bytes |-> << n \div 65536, (n \div 256) % 256, n % 256 >>
                                 \o r.bytes]

\* Variant: the credentials are joined as key:id
V1GetAuthHeaderKeyFirst(a) ==
    [auth |-> a,
     value |-> BasicPrefix \o Base64Encode(a.APIKey \o << Colon >> \o a.CustomerID),
     err |-> "nil"]

\* V1KeyAuth.GetAuthHeader: "Basic " + base64(CustomerID:APIKey), nil
V1GetAuthHeader(a) ==
    [auth |-> a,
     value |-> BasicPrefix \o Base64Encode(a.CustomerID \o << Colon >> \o a.APIKey),
     err |-> "nil"]

\* V1KeyAuth.GetToken: "", nil
V1GetToken(a) == [auth |-> a, value |-> << >>, err |-> "nil"]

\* V1KeyAuth.GetEndpoint
V1GetEndpoint(a) == [auth |-> a, value |-> a.Endpoint, err |-> "nil"]

\* Variant: RefreshIfNeeded drops the API key
V1RefreshIfNeededForgetting(a) ==
    [auth |-> [a EXCEPT !.APIKey = << >>], value |-> << >>, err |-> "nil"]

\* V1KeyAuth.RefreshIfNeeded: nil
V1RefreshIfNeeded(a) == [auth |-> a, value |-> << >>, err |-> "nil"]

KeyMethods == {"GetAuthHeader", "GetToken", "RefreshIfNeeded", "GetEndpoint"}

\* the call of method m on the authenticator a
V1Call(m, a) ==
    IF m = "GetAuthHeader" THEN V1GetAuthHeader(a)
    ELSE IF m = "GetToken" THEN V1GetToken(a)
    ELSE IF m = "RefreshIfNeeded" THEN V1RefreshIfNeeded(a)
    ELSE V1GetEndpoint(a)

InitKeyAuth ==
    /\ InitCore({DefaultHTTPClientConfig}, {NoHeaders})
    /\ PureIdle
    /\ ClsIdle
    /\ RecIdle
    /\ FacIdle
    /\ keyAuth \in { NewV1KeyAuth(k, c, e) :
                       k \in CredStrings(MaxCredLen), c \in CredStrings(MaxCredLen),
                       e \in KeyEndpoints }
    /\ keyCalls = << >>
    /\ LockIdle
    /\ ConIdle
    /\ RemIdle

\* one call of method m on the authenticator
KeyCall(m) ==
    /\ Len(keyCalls) < MaxKeyCalls
    /\ LET r == V1Call(m, keyAuth) IN
        /\ keyAuth' = r.auth
        /\ keyCalls' = Append(keyCalls, [method |-> m, value |-> r.value, err |-> r.err])
    /\ UNCHANGED exceptKey

CallGetAuthHeader == KeyCall("GetAuthHeader")
CallGetToken == KeyCall("GetToken")
CallRefreshIfNeeded == KeyCall("RefreshIfNeeded")
CallGetEndpoint == KeyCall("GetEndpoint")

NextKeyAuth ==
    \/ CallGetAuthHeader
    \/ CallGetToken
    \/ CallRefreshIfNeeded
    \/ CallGetEndpoint

SpecKeyAuth == InitKeyAuth /\ [][NextKeyAuth]_vars

\* C27: every GetAuthHeader call on a key-pair authenticator returns a nil
\* error and a value that starts with "Basic " and whose remainder is valid
\* base64 decoding to the customer id, a colon and the API key.
C27_BasicHeaderRoundTrip ==
    \A i \in 1 .. Len(keyCalls) :
        keyCalls[i].method = "GetAuthHeader"
        => LET v == keyCalls[i].value
               d == Base64Decode(SubSeq(v, Len(BasicPrefix) + 1, Len(v)))
           IN  /\ keyCalls[i].err = "nil"
               /\ Len(v) >= Len(BasicPrefix)
               /\ SubSeq(v, 1, Len(BasicPrefix)) = BasicPrefix
               /\ d.ok
               /\ d.bytes = keyAuth.CustomerID \o << Colon >> \o keyAuth.APIKey

\* a header for an id and a key that both contain ':', with a byte outside
\* ASCII, whose encoding ends in one '='
C27_Witness ==
    /\ keyCalls # << >>
    /\ keyCalls[1].method = "GetAuthHeader"
    /\ keyAuth.CustomerID = << Colon, 255 >>
    /\ keyAuth.APIKey = << 97, Colon >>
    /\ keyCalls[1].value[Len(keyCalls[1].value)] = B64Pad
    /\ keyCalls[1].value[Len(keyCalls[1].value) - 1] # B64Pad

\* empty id and empty key: the header is "Basic Og=="
C27_WitnessEmpty ==
    /\ keyCalls # << >>
    /\ keyCalls[1].method = "GetAuthHeader"
    /\ keyAuth.CustomerID = << >>
    /\ keyAuth.APIKey = << >>
    /\ keyCalls[1].value = BasicPrefix \o << 79, 103, 61, 61 >>

\* an encoding without padding: id "a", key "a" gives "YTph"
C27_WitnessUnpadded ==
    /\ keyCalls # << >>
    /\ keyCalls[1].method = "GetAuthHeader"
    /\ keyAuth.CustomerID = << 97 >>
    /\ keyAuth.APIKey = << 97 >>
    /\ keyCalls[1].value = BasicPrefix \o << 89, 84, 112, 104 >>

\* C28: no call of GetAuthHeader, GetToken, RefreshIfNeeded or GetEndpoint
\* changes the key-pair authenticator; GetToken returns the empty token and a
\* nil error, RefreshIfNeeded returns nil, and GetAuthHeader returns what every
\* earlier GetAuthHeader call returned.
C28_KeyAuthStateless ==
    [][ keyCalls' # keyCalls
        => LET n == Len(keyCalls')
               c == keyCalls'[n]
           IN  /\ keyAuth' = keyAuth
               /\ c.method = "GetToken" => ( c.value = << >> /\ c.err = "nil" )
               /\ c.method = "RefreshIfNeeded" => c.err = "nil"
               /\ c.method = "GetAuthHeader"
                  => \A i \in 1 .. n - 1 :
                        keyCalls[i].method = "GetAuthHeader"
                        => ( keyCalls[i].value = c.value /\ keyCalls[i].err = c.err )
      ]_vars

\* GetAuthHeader, RefreshIfNeeded and GetAuthHeader again on a non-empty key
C28_Witness ==
    /\ Len(keyCalls) = 3
    /\ keyCalls[1].method = "GetAuthHeader"
    /\ keyCalls[2].method = "RefreshIfNeeded"
    /\ keyCalls[3].method = "GetAuthHeader"
    /\ keyCalls[3].value = keyCalls[1].value
    /\ keyAuth.APIKey # << >>

\* GetToken after a GetAuthHeader on a non-empty key
C28_WitnessToken ==
    /\ Len(keyCalls) >= 2
    /\ keyCalls[1].method = "GetAuthHeader"
    /\ keyCalls[2].method = "GetToken"
    /\ keyCalls[2].value = << >>
    /\ keyAuth.APIKey # << >>

----------------------------------------------------------------------------
(* SpecObservation: GetObservation applied to nil and to instances whose    *)
(* dates are missing, empty, well-formed or malformed                       *)

\* a *string date of the API: nil, "", an RFC 3339 instant, another notation
DateStrings == {<< >>, <<"">>, <<"2024-01-15T10:30:00Z">>, <<"15/01/2024">>}

ObservedInstances ==
    [ ID : {"", "vps-1"}, Hostname : {"web"}, Status : {"active", "suspended"},
      IPAddress : {"192.0.2.1"}, IPv6Address : {"", "2001:db8::1"},
      OSId : {"debian"}, CPUCount : {2}, RAM : {1024}, DiskSize : {20},
      Bandwidth : {<< >>, <<100>>},
      CreationDate : DateStrings, ExpirationDate : DateStrings,
      IPv6Enabled : {TRUE}, Inodes : {<< >>} ]

InitObservation ==
    /\ InitCore({DefaultHTTPClientConfig}, {NoHeaders})
    /\ inst \in {NoInstance} \cup { <<i>> : i \in ObservedInstances }
    /\ params = NoParameters
    /\ utd = << >>
    /\ liHist = << >>
    /\ observation = << >>
    /\ ClsIdle
    /\ RecIdle
    /\ FacIdle
    /\ KeyIdle
    /\ LockIdle
    /\ ConIdle
    /\ RemIdle

\* GetObservation(inst) is called; it returns a pointer to a new struct
CallGetObservation ==
    /\ observation = << >>
    /\ observation' = << GetObservation(inst) >>
    /\ UNCHANGED << inst, params, utd, liHist >>
    /\ UNCHANGED exceptPure

NextObservation == CallGetObservation

SpecObservation == InitObservation /\ [][NextObservation]_vars

\* the date string is missing, empty or not an RFC 3339 instant
NoDate(d) == d = << >> \/ d[1] = "" \/ ParseRFC3339(d[1]) = << >>

\* C29: GetObservation returns for nil a zero-value observation, and for an
\* instance an observation with the instance's ID, status, two addresses,
\* hostname, CPU count, RAM and disk size, in which a date is absent when the
\* instance's date string is missing, empty or does not parse, and is the
\* parsed instant otherwise.
C29_GetObservationProjection ==
    observation # << >>
    => LET o == observation[1] IN
       /\ inst = NoInstance => o = ZeroObservation
       /\ inst # NoInstance
          => LET i == inst[1] IN
             /\ o.ID = i.ID
             /\ o.Status = i.Status
             /\ o.IPAddress = i.IPAddress
             /\ o.IPv6Address = i.IPv6Address
             /\ o.CurrentHostname = i.Hostname
             /\ o.CurrentCPUCount = i.CPUCount
             /\ o.CurrentRAM = i.RAM
             /\ o.CurrentDiskSize = i.DiskSize
             /\ NoDate(i.CreationDate) => o.CreationDate = << >>
             /\ NoDate(i.ExpirationDate) => o.ExpirationDate = << >>
             /\ ~NoDate(i.CreationDate) => o.CreationDate = ParseRFC3339(i.CreationDate[1])
             /\ ~NoDate(i.ExpirationDate)
                => o.ExpirationDate = ParseRFC3339(i.ExpirationDate[1])

\* a malformed creation date next to a well-formed expiration date
C29_Witness ==
    /\ observation # << >>
    /\ inst # NoInstance
    /\ inst[1].CreationDate = <<"15/01/2024">>
    /\ inst[1].ExpirationDate = <<"2024-01-15T10:30:00Z">>
    /\ observation[1].CreationDate = << >>
    /\ observation[1].ExpirationDate # << >>

\* the nil instance
C29_WitnessNil ==
    /\ observation # << >>
    /\ inst = NoInstance
    /\ observation[1] = ZeroObservation

\* an empty and a missing date string
C29_WitnessEmpty ==
    /\ observation # << >>
    /\ inst # NoInstance
    /\ inst[1].CreationDate = <<"">>
    /\ inst[1].ExpirationDate = << >>
    /\ observation[1].CreationDate = << >>

----------------------------------------------------------------------------
(* SpecLocks: goroutines sharing one V2OAuthAuth.  A goroutine's call runs  *)
(* as the sequence of its lock operations, its reads and writes of the      *)
(* cache, and its token request.                                            *)

\* the calls a goroutine makes; GetAuthHeader locks as GetToken, through getToken
LockOps == {"GetToken", "RefreshIfNeeded"}

\* Variant: RLock that does not wait for a writer
RLockFreeIgnoringWriter(m, waiting) == TRUE

\* sync.RWMutex.RLock can proceed: no goroutine holds the lock exclusively
\* and none is blocked in Lock
RLockFree(m, waiting) == m.writer = NoGoroutine /\ waiting = {}

\* Variant: Lock that does not wait for the readers
LockFreeIgnoringReaders(m) == m.writer = NoGoroutine

\* sync.RWMutex.Lock can proceed: nobody holds the lock
LockFree(m) == m.writer = NoGoroutine /\ m.readers = {}

\* the expires_in the token endpoint sends to the goroutines
LockExpiresIn == {750}

\* the goroutines blocked in a.mu.Lock()
WaitingWriters == { g \in Goroutines : gor[g].pc = "lock" }

\* what the lock actions leave alone in the client core
lockFrame == << ctxDone, config, op, pc, snap, pending, callTokenReqs, tokenOutcome,
                reqCtx, attempt, outcomes, closed, waits, resp, retToken, retErr,
                retHeader, tokenStatus, callerHeaders, header, sent, authCalls >>

InitLocks ==
    /\ InitCore({DefaultHTTPClientConfig}, {NoHeaders})
    /\ PureIdle
    /\ ClsIdle
    /\ RecIdle
    /\ FacIdle
    /\ KeyIdle
    /\ LockIdle
    /\ ConIdle
    /\ RemIdle

\* goroutine g enters GetToken or RefreshIfNeeded and reaches a.mu.RLock()
GoCallOf(g) ==
    /\ gor[g].pc = "idle"
    /\ \E o \in LockOps : gor' = [gor EXCEPT ![g] = [IdleGoroutine EXCEPT !.pc = "rlock", !.op = o]]
    /\ UNCHANGED << issued, mu, now, cachedToken, cachedExpiresAt, cacheSrc, tokenRequests >>

\* a.mu.RLock() returns
GoRLockOf(g) ==
    /\ gor[g].pc = "rlock"
    /\ RLockFree(mu, WaitingWriters)
    /\ mu' = [mu EXCEPT !.readers = @ \cup {g}]
    /\ gor' = [gor EXCEPT ![g].pc = "check"]
    /\ UNCHANGED << issued, now, cachedToken, cachedExpiresAt, cacheSrc, tokenRequests >>

\* getToken, the cache is valid: return a.cachedToken, the deferred RUnlock
GoHitOf(g) ==
    /\ gor[g].pc = "check" /\ gor[g].op = "GetToken"
    /\ CacheValid(cachedToken, cachedExpiresAt, now)
    /\ mu' = [mu EXCEPT !.readers = @ \ {g}]
    /\ gor' = [gor EXCEPT ![g] = [IdleGoroutine EXCEPT !.ret = cachedToken]]
    /\ UNCHANGED << issued, now, cachedToken, cachedExpiresAt, cacheSrc, tokenRequests >>

\* getToken, the cache is not valid: a.mu.RUnlock(), on to refreshToken
GoMissOf(g) ==
    /\ gor[g].pc = "check" /\ gor[g].op = "GetToken"
    /\ ~CacheValid(cachedToken, cachedExpiresAt, now)
    /\ mu' = [mu EXCEPT !.readers = @ \ {g}]
    /\ gor' = [gor EXCEPT ![g].pc = "request"]
    /\ UNCHANGED << issued, now, cachedToken, cachedExpiresAt, cacheSrc, tokenRequests >>

\* RefreshIfNeeded: the test under RLock, a.mu.RUnlock(), return nil or on to
\* refreshToken
GoRinCheckOf(g) ==
    /\ gor[g].pc = "check" /\ gor[g].op = "RefreshIfNeeded"
    /\ mu' = [mu EXCEPT !.readers = @ \ {g}]
    /\ gor' = IF NeedsRefresh(cachedToken, cachedExpiresAt, now)
              THEN [gor EXCEPT ![g].pc = "request"]
              ELSE [gor EXCEPT ![g] = IdleGoroutine]
    /\ UNCHANGED << issued, now, cachedToken, cachedExpiresAt, cacheSrc, tokenRequests >>

\* refreshToken returns: an error goes to the caller; RefreshIfNeeded drops
\* the token; getToken goes on to a.mu.Lock()
GoRequestOf(g) ==
    /\ gor[g].pc = "request"
    /\ tokenRequests < MaxTokenRequests
    /\ \E o \in TokenOutcomes, ttl \in LockExpiresIn :
      \E st \in TokenStatusesOf(o) :
        LET r == refreshToken(o, st, ttl, now, tokenRequests + 1) IN
        /\ gor' = IF r.err # NilErr \/ gor[g].op = "RefreshIfNeeded"
                  THEN [gor EXCEPT ![g] = IdleGoroutine]
                  ELSE [gor EXCEPT ![g].pc = "lock",
                                   ![g].pending = [token |-> r.token,
                                                   expiresAt |-> r.expiresAt,
                                                   at |-> now, ttl |-> ttl]]
        /\ issued' = Append(issued, r.expiresAt)
    /\ tokenRequests' = tokenRequests + 1
    /\ UNCHANGED << mu, now, cachedToken, cachedExpiresAt, cacheSrc >>

\* a.mu.Lock() returns
GoLockOf(g) ==
    /\ gor[g].pc = "lock"
    /\ LockFree(mu)
    /\ mu' = [mu EXCEPT !.writer = g]
    /\ gor' = [gor EXCEPT ![g].pc = "store"]
    /\ UNCHANGED << issued, now, cachedToken, cachedExpiresAt, cacheSrc, tokenRequests >>

\* getToken under the exclusive lock: a.cachedToken = token
GoStoreTokenOf(g) ==
    /\ gor[g].pc = "store"
    /\ cachedToken' = gor[g].pending.token
    /\ gor' = [gor EXCEPT ![g].pc = "store_expiry"]
    /\ UNCHANGED << issued, mu, now, cachedExpiresAt, cacheSrc, tokenRequests >>

\* getToken: a.cachedExpiresAt = expiresAt, a.mu.Unlock(), return token
GoStoreOf(g) ==
    /\ gor[g].pc = "store_expiry"
    /\ cachedExpiresAt' = gor[g].pending.expiresAt
    /\ cacheSrc' = [at |-> gor[g].pending.at, ttl |-> gor[g].pending.ttl]
    /\ mu' = [mu EXCEPT !.writer = NoGoroutine]
    /\ gor' = [gor EXCEPT ![g] = [IdleGoroutine EXCEPT !.ret = gor[g].pending.token]]
    /\ UNCHANGED << issued, now, cachedToken, tokenRequests >>

GoCall == (\E g \in Goroutines : GoCallOf(g)) /\ UNCHANGED << lockFrame, exceptLock >>
GoRLock == (\E g \in Goroutines : GoRLockOf(g)) /\ UNCHANGED << lockFrame, exceptLock >>
GoHit == (\E g \in Goroutines : GoHitOf(g)) /\ UNCHANGED << lockFrame, exceptLock >>
GoMiss == (\E g \in Goroutines : GoMissOf(g)) /\ UNCHANGED << lockFrame, exceptLock >>
GoRinCheck == (\E g \in Goroutines : GoRinCheckOf(g)) /\ UNCHANGED << lockFrame, exceptLock >>
GoRequest == (\E g \in Goroutines : GoRequestOf(g)) /\ UNCHANGED << lockFrame, exceptLock >>
GoLock == (\E g \in Goroutines : GoLockOf(g)) /\ UNCHANGED << lockFrame, exceptLock >>
GoStoreToken == (\E g \in Goroutines : GoStoreTokenOf(g)) /\ UNCHANGED << lockFrame, exceptLock >>
GoStore == (\E g \in Goroutines : GoStoreOf(g)) /\ UNCHANGED << lockFrame, exceptLock >>

NextLocks ==
    \/ Tick
    \/ GoCall
    \/ GoRLock
    \/ GoHit
    \/ GoMiss
    \/ GoRinCheck
    \/ GoRequest
    \/ GoLock
    \/ GoStoreToken
    \/ GoStore

SpecLocks == InitLocks /\ [][NextLocks]_vars

\* the goroutines with a token request in flight
InFlight == { g \in Goroutines : gor[g].pc = "request" }

\* the goroutines reading the cache
Reading == { g \in Goroutines : gor[g].pc = "check" }

\* the lock works as a reader/writer lock and protects the cache: a goroutine
\* reads the cache only while holding the lock shared, writes it only while
\* holding it exclusively, and the exclusive holder excludes every other holder
CacheAccessLocked ==
    /\ \A g \in Goroutines : gor[g].pc = "check" <=> g \in mu.readers
    /\ \A g \in Goroutines : gor[g].pc \in {"store", "store_expiry"} <=> mu.writer = g
    /\ mu.writer # NoGoroutine => mu.readers = {}

C30_WitnessStore ==
    /\ gor[1].pc = "store_expiry"
    /\ mu.writer = 1
    /\ gor[2].pc = "rlock"

\* a goroutine reads the cache under the shared lock while the request of
\* the other is in flight
C30_WitnessReadDuringRequest ==
    /\ gor[1].pc = "request"
    /\ gor[2].pc = "check"
    /\ 2 \in mu.readers

----------------------------------------------------------------------------
(* Do prepares the authentication once *)

\* C31: in a Do that has made an attempt, RefreshIfNeeded and GetAuthHeader
\* have each been entered exactly once, in this order, and every attempt made
\* so far, the first try and the retries, has sent the Authorization value
\* that GetAuthHeader returned before the loop, whatever the clock and the
\* cache are by now.
C31_AuthenticationPreparedOnce ==
    ( op = "Do" /\ sent # << >> )
    => /\ authCalls = <<"RefreshIfNeeded", "GetAuthHeader">>
       /\ \A k \in 1 .. Len(sent) : sent[k].Authorization = << retHeader >>
       /\ retHeader = BearerHeader(retToken)

\* a Do prepared from a valid cache without a token request made two
\* attempts, and by the time it returned the token had expired
C31_Witness ==
    /\ DoReturned
    /\ Len(sent) = 2
    /\ callTokenReqs = 0
    /\ snap.tok # NoToken /\ snap.now < snap.exp
    /\ now >= cachedExpiresAt
    /\ sent[2].Authorization = << BearerHeader(snap.tok) >>

----------------------------------------------------------------------------
(* What Do returns *)

\* C34: every Do that has returned carries a response or an error.
C34_ResponseOrError ==
    DoReturned => ( resp # NoResp \/ retErr # NilErr )

\* under a MaxRetries that is not negative Do returns a response or an error
ResponseOrErrorFromZero ==
    ( DoReturned /\ config.MaxRetries >= 0 ) => ( resp # NoResp \/ retErr # NilErr )

\* Do returned a nil response and a nil error without any attempt
DoReturnedNothing ==
    /\ DoReturned
    /\ config.MaxRetries < 0
    /\ resp = NoResp /\ retErr = NilErr
    /\ outcomes = << >>

----------------------------------------------------------------------------
(* Token requests behind one Do *)

\* C35: a Do makes at most one token-endpoint request, and its
\* RefreshIfNeeded goes on to a request only when the cache it read cannot be
\* served.
C35_OneTokenRequestPerDo ==
    /\ op = "Do" => callTokenReqs <= 1
    /\ ( op = "Do" /\ pc = "rin_request" ) => ~CacheValid(snap.tok, snap.exp, snap.now)

\* a Do that started on an empty cache made two token requests: the token of
\* the first was dropped, the token of the second is in the header
DoFetchedTwice ==
    /\ DoReturned
    /\ callTokenReqs = 2
    /\ tokenRequests = 2
    /\ retErr = NilErr
    /\ retToken = 2
    /\ cachedToken = 2

\* the RefreshIfNeeded of a Do goes on to a token request although the cache
\* it read is valid
DoRefreshesValidCache ==
    /\ op = "Do" /\ pc = "rin_request"
    /\ CacheValid(snap.tok, snap.exp, snap.now)

----------------------------------------------------------------------------
(* The cache entry under concurrent calls *)

\* the cache is empty, or holds a token together with the expiry computed
\* from the response that carried this token
CacheEntryWhole ==
    \/ cachedToken = NoToken /\ cachedExpiresAt = ZeroTime
    \/ /\ cachedToken \in 1 .. Len(issued)
       /\ cachedExpiresAt = issued[cachedToken]

\* a step changes the cache
CacheWritten == cachedToken' # cachedToken \/ cachedExpiresAt' # cachedExpiresAt

\* C36: whenever the exclusive lock is not held, and so whenever a goroutine
\* reads the cache, the cached token and the cached expiry come from the same
\* successful token response; and the cache changes only in the steps of a
\* goroutine that holds the exclusive lock after a successful response, so a
\* failed request changes neither.
C36_CacheEntryFromOneResponse ==
    /\ [] ( ( mu.writer = NoGoroutine \/ Reading # {} ) => CacheEntryWhole )
    /\ [][ CacheWritten
           => /\ mu.writer # NoGoroutine
              /\ gor[mu.writer].pending.token # NoToken
              /\ tokenRequests' = tokenRequests ]_vars

\* the cache holds the second entry it was given, written by goroutine 2
\* after goroutine 1 had stored the first, and a later request has failed
C36_Witness ==
    /\ cachedToken = 2
    /\ cachedExpiresAt = issued[2]
    /\ issued[1] # issued[2]
    /\ Len(issued) = 3
    /\ issued[3] = ZeroTime
    /\ gor[2].ret = 2
    /\ mu.writer = NoGoroutine

\* C37: the token in the cache is never replaced by one the server issued
\* earlier, and the cached expiry never moves backward.
C37_NoOverwriteByEarlierResponse ==
    [][ /\ cachedToken' >= cachedToken
        /\ cachedExpiresAt' >= cachedExpiresAt ]_vars

\* the cache ends with the token of the first response although the token of
\* the second response had been stored before it
OverwrittenByEarlierResponse ==
    /\ cachedToken = 1
    /\ gor[1].ret = 1
    /\ gor[2].ret = 2
    /\ tokenRequests = 2
    /\ mu.writer = NoGoroutine

----------------------------------------------------------------------------
(* UpToDate and LateInitialize together *)

\* C38: for every non-nil remote instance and every params UpToDate returns
\* true or false; when params sets Bandwidth and the remote instance has no
\* Bandwidth value it returns false.
C38_UpToDateTotal ==
    (utd # << >> /\ inst # NoInstance) =>
        /\ utd[1].res \in {"true", "false"}
        /\ (utd[1].params.Bandwidth # << >> /\ inst[1].Bandwidth = << >>)
              => utd[1].res = "false"

\* UpToDate was called with params that set Bandwidth and agree with the
\* instance in hostname, CPU count, RAM and disk size, on an instance that has
\* no Bandwidth value: the call did not return
UpToDatePanicsOnNilBandwidth ==
    /\ utd # << >> /\ inst # NoInstance
    /\ utd[1].params.Bandwidth = <<100>> /\ inst[1].Bandwidth = << >>
    /\ utd[1].params.Hostname = inst[1].Hostname
    /\ utd[1].res = "panic"

\* the fields of params that one LateInitialize call changed hold the value
\* the remote instance has
CopiedFromRemote(i, b, a) ==
    /\ a.OSId # b.OSId => a.OSId = i.OSId
    /\ a.Bandwidth # b.Bandwidth => a.Bandwidth = i.Bandwidth
    /\ a.IPv6Enabled # b.IPv6Enabled => a.IPv6Enabled = <<i.IPv6Enabled>>
    /\ a.Inodes # b.Inodes => a.Inodes = i.Inodes

\* C39: for every LateInitialize call on a remote instance, UpToDate of that
\* instance gives for the params the call leaves what it gives for the params
\* the call was given, so params that were up to date stay up to date; and
\* every field the call changed equals the remote instance's value.
C39_LateInitializeKeepsUpToDate ==
    \A k \in 1 .. Len(liHist) :
        /\ UpToDate(inst, liHist[k].before) = "true"
              => UpToDate(inst, liHist[k].after) = "true"
        /\ UpToDate(inst, liHist[k].after) = UpToDate(inst, liHist[k].before)
        /\ inst # NoInstance
              => CopiedFromRemote(inst[1], liHist[k].before, liHist[k].after)

\* a call backfilled the bandwidth, the IPv6 flag and the OS id into params
\* that were up to date, next to set fields that agree with the instance
C39_Witness ==
    /\ Len(liHist) >= 1 /\ inst # NoInstance
    /\ liHist[1].changed
    /\ liHist[1].before.Hostname = "web" /\ liHist[1].before.CPUCount = 2
    /\ liHist[1].before.Bandwidth = << >> /\ liHist[1].after.Bandwidth = <<100>>
    /\ liHist[1].before.IPv6Enabled = << >> /\ liHist[1].after.IPv6Enabled = <<TRUE>>
    /\ liHist[1].before.OSId = "" /\ liHist[1].after.OSId = "debian"
    /\ UpToDate(inst, liHist[1].before) = "true"
    /\ UpToDate(inst, liHist[1].after) = "true"

----------------------------------------------------------------------------
(* Authentication failures and the NotFound recovery of Observe *)

\* C40: when the fetch of Observe fails with an error that is not itself a
\* HostingerError, as the error is that wraps an authenticator's HostingerError
\* of status 404, none of the five predicates holds of it, and Observe returns
\* that error with the empty observation result instead of reporting the
\* resource as absent with a nil error; the recorded identity is kept.
C40_AuthFailureNotNotFound ==
    (RReturned("Observe") /\ FetchFailed /\ calls[1].err.kind # "HostingerError") =>
        LET e == calls[1].err IN
        /\ ~IsNotFound(e) /\ ~IsUnauthorized(e) /\ ~IsForbidden(e)
        /\ ~IsConflict(e) /\ ~IsRateLimit(e)
        /\ rerr = e
        /\ rerr # NilError
        /\ result = NoResult
        /\ externalName = pre.externalName

\* the fetch of an Observe failed with an error wrapping a HostingerError of
\* kind NotFound and status 404, and Observe returned it
C40_Witness ==
    /\ RReturned("Observe") /\ pre.externalName = "vps-1" /\ FetchFailed
    /\ calls[1].err = WrapError(ClassifyError(StatusNotFound, "gone"))
    /\ calls[1].err.Status = 404 /\ calls[1].err.Type = "NotFound"
    /\ rerr = calls[1].err

----------------------------------------------------------------------------
(* connector.Connect: the managed reconciler calls it at the start of every *)
(* reconcile pass, and the pass uses the external client it returns         *)

MaxConnects == 2         \* Connect calls, one per reconcile pass
MaxPassCalls == 2        \* GetToken calls made by the passes

\* the ProviderConfigs the managed resources reference
ProviderConfigNames == {"prod", "staging"}

\* the token cache of the authenticator NewV2OAuthAuth returns: the zero
\* values of cachedToken and cachedExpiresAt
EmptyCache == [cachedToken |-> NoToken, cachedExpiresAt |-> ZeroTime]

InitConnect ==
    /\ InitCore({DefaultHTTPClientConfig}, {NoHeaders})
    /\ PureIdle
    /\ ClsIdle
    /\ RecIdle
    /\ FacIdle
    /\ KeyIdle
    /\ LockIdle
    /\ ConIdle
    /\ RemIdle

\* connector.Connect for a managed resource that references ProviderConfig c:
\* CreateHostingerClient builds a client around a new authenticator, or Connect
\* fails before it has one
Connect ==
    /\ Len(connected) < MaxConnects
    /\ \E c \in ProviderConfigNames, ok \in BOOLEAN :
        IF ok
        THEN /\ auths' = Append(auths, EmptyCache)
             /\ connected' = Append(connected, [cfg |-> c, auth |-> Len(auths) + 1])
        ELSE /\ connected' = Append(connected, [cfg |-> c, auth |-> 0])
             /\ UNCHANGED auths
    /\ UNCHANGED << served, tokenRequests >>
    /\ UNCHANGED << lockFrame, now, cachedToken, cachedExpiresAt, cacheSrc >>
    /\ UNCHANGED exceptCon

\* a request of pass p needs the token: getToken on the authenticator of the
\* pass's client, which no other pass holds
PassGetToken ==
    /\ Len(served) < MaxPassCalls
    /\ \E p \in 1 .. Len(connected) :
        /\ connected[p].auth # 0
        /\ LET n == connected[p].auth
               a == auths[n]
           IN IF CacheValid(a.cachedToken, a.cachedExpiresAt, now)
              THEN /\ served' = Append(served,
                        [pass |-> p, cfg |-> connected[p].cfg, token |-> a.cachedToken,
                         fromCache |-> TRUE, at |-> now, exp |-> a.cachedExpiresAt])
                   /\ UNCHANGED << auths, tokenRequests >>
              ELSE /\ tokenRequests < MaxTokenRequests
                   /\ \E o \in TokenOutcomes, ttl \in LockExpiresIn :
                      \E st \in TokenStatusesOf(o) :
                        LET r == refreshToken(o, st, ttl, now, tokenRequests + 1) IN
                        /\ auths' = IF r.err # NilErr THEN auths
                                    ELSE [auths EXCEPT ![n] =
                                            [cachedToken |-> r.token,
                                             cachedExpiresAt |-> r.expiresAt]]
                        /\ served' = Append(served,
                              [pass |-> p, cfg |-> connected[p].cfg, token |-> r.token,
                               fromCache |-> FALSE, at |-> now, exp |-> r.expiresAt])
                   /\ tokenRequests' = tokenRequests + 1
    /\ UNCHANGED connected
    /\ UNCHANGED << lockFrame, now, cachedToken, cachedExpiresAt, cacheSrc >>
    /\ UNCHANGED exceptCon

NextConnect ==
    \/ Tick
    \/ Connect
    \/ PassGetToken

SpecConnect == InitConnect /\ [][NextConnect]_vars

\* C32: a pass that needs the token while a token fetched earlier for the same
\* provider configuration has not expired is served from the cache, and no
\* token is served to passes of two different configurations.
C32_OneCachePerConfiguration ==
    \A j, k \in 1 .. Len(served) :
        /\ ( j < k /\ served[j].cfg = served[k].cfg
             /\ served[j].token # NoToken /\ served[k].at < served[j].exp )
              => served[k].fromCache
        /\ ( served[j].cfg # served[k].cfg /\ served[j].token # NoToken )
              => served[j].token # served[k].token

\* no token is served to passes of two different configurations, and no
\* authenticator is held by two passes
NoCacheAcrossConfigurations ==
    /\ \A j, k \in 1 .. Len(served) :
        ( served[j].cfg # served[k].cfg /\ served[j].token # NoToken )
            => served[j].token # served[k].token
    /\ \A p, q \in 1 .. Len(connected) :
        ( p # q /\ connected[p].auth # 0 ) => connected[p].auth # connected[q].auth

\* the second pass of one configuration requested a token at the instant at
\* which the first pass had fetched one
PassFetchesAgain ==
    /\ Len(served) = 2
    /\ served[1].cfg = "prod" /\ served[2].cfg = "prod"
    /\ served[1].pass = 1 /\ served[2].pass = 2
    /\ served[1].token = 1 /\ served[2].token = 2
    /\ ~served[2].fromCache
    /\ served[2].at = served[1].at
    /\ served[2].at < served[1].exp

----------------------------------------------------------------------------
(* The reconciliation passes of one managed resource, polled by the         *)
(* scheduler: every pass begins with Observe, goes on to Create when the     *)
(* resource is reported absent and to Update when it is reported out of      *)
(* sync.  The remote service answers Get by identity and gives a new         *)
(* instance an identity it has not lost.                                     *)

InitPoll ==
    /\ InitCore({DefaultHTTPClientConfig}, {NoHeaders})
    /\ PureIdle
    /\ ClsIdle
    /\ externalName \in {"", "vps-1"}
    /\ forProvider \in DesiredParameters
    /\ atProvider = ZeroObservation
    /\ rop = "none"
    /\ rpc = "idle"
    /\ pre = [externalName |-> externalName, forProvider |-> forProvider,
              atProvider |-> atProvider]
    /\ calls = << >>
    /\ fetched = << >>
    /\ result = NoResult
    /\ rerr = NilError
    /\ FacIdle
    /\ KeyIdle
    /\ LockIdle
    /\ ConIdle
    /\ gone \in {{}, {"vps-1"}}

\* the method the scheduler's pass calls next: Create after an Observe that
\* reported the resource absent, Update after one that reported it out of
\* sync, Observe of the next pass otherwise
PassMethod ==
    IF rop = "Observe" /\ rpc = "done" /\ rerr = NilError
    THEN IF ~result.ResourceExists THEN "Create"
         ELSE IF ~result.ResourceUpToDate THEN "Update"
         ELSE "Observe"
    ELSE "Observe"

\* the scheduler goes on with the pass, or begins the next one
PollCall ==
    /\ RCall
    /\ rop' = PassMethod

\* Observe, the remote answering the fetch: NotFound for an identity it has
\* lost, the instance of that identity otherwise
PollObserve ==
    /\ Observe
    /\ NameSet(externalName) =>
          IF externalName \in gone
          THEN calls'[1].err = ClassifyError(StatusNotFound, "gone")
          ELSE calls'[1].err = NilError /\ fetched'[1].ID = externalName

\* Create, the remote failing or returning a new instance under an identity
\* that is neither lost nor the recorded one
PollCreateCall ==
    /\ CreateCall
    /\ rpc' = "setname" => fetched'[1].ID \notin gone \cup {externalName}

\* the remote Create succeeds
PollCreateSucceeds ==
    /\ PollCreateCall
    /\ rpc' = "setname"

\* the remote loses the instance whose identity is recorded, behind the
\* provider's back; it keeps an identity to give to a new instance
RemoteLoses ==
    /\ NameSet(externalName)
    /\ externalName \notin gone
    /\ Cardinality(gone) + 1 < Cardinality(RemoteIDs)
    /\ gone' = gone \cup {externalName}
    /\ UNCHANGED << coreVars, pureVars, clsVars, recVars, facVars, keyVars,
                    lockVars, conVars >>

NextPoll ==
    \/ PollCall
    \/ PollObserve
    \/ PollCreateCall
    \/ CreateSetName
    \/ CreateLateInit
    \/ Update
    \/ RemoteLoses

\* the scheduler keeps polling and every method that was called runs on; a
\* remote Create that is tried again and again succeeds
FairPoll ==
    /\ WF_vars(PollCall)
    /\ WF_vars(PollObserve)
    /\ WF_vars(PollCreateCall)
    /\ SF_vars(PollCreateSucceeds)
    /\ WF_vars(CreateSetName)
    /\ WF_vars(CreateLateInit)
    /\ WF_vars(Update)

SpecPoll == InitPoll /\ [][NextPoll]_vars /\ FairPoll

\* the recorded identity is id and the remote has lost the instance
Stale(id) == externalName = id /\ id \in gone

\* an Observe has reported the resource as existing under a recorded identity
\* other than id, which the remote has
ObservedUnderNew(id) ==
    /\ RReturned("Observe")
    /\ result.ResourceExists /\ rerr = NilError
    /\ NameSet(externalName) /\ externalName # id /\ externalName \notin gone
    /\ atProvider.ID = externalName

\* C33: whenever the recorded identity is one the remote has lost, a later
\* pass records the identity a remote Create returned in its place, and later
\* an Observe reports the resource as existing under that new identity.
C33_LevelTriggeredRecreation ==
    \A id \in RemoteIDs :
        Stale(id) ~> ( externalName # id /\ NameSet(externalName)
                       /\ <> ObservedUnderNew(id) )

\* whenever the recorded identity is one the remote has lost, a later pass
\* records another identity in its place
IdentityReplaced ==
    \A id \in RemoteIDs : Stale(id) ~> ( externalName # id /\ NameSet(externalName) )

\* whenever the recorded identity is one the remote has lost, later an Observe
\* reports the resource as existing under a new identity or an Observe panics
\* in UpToDate
RecreationUnlessPanic ==
    \A id \in RemoteIDs :
        Stale(id) ~> ( ObservedUnderNew(id) \/ (rop = "Observe" /\ rpc = "panicked") )

\* the identity vps-2 has replaced the lost vps-1, the remote has the
\* instance, and the Observe of a later pass panicked in UpToDate
ObservePanicsAfterRecreation ==
    /\ externalName = "vps-2" /\ gone = {"vps-1"}
    /\ rop = "Observe" /\ rpc = "panicked"
    /\ fetched[1].ID = "vps-2" /\ fetched[1].Bandwidth = << >>
    /\ forProvider.Bandwidth = <<100>>

====
